---- MODULE Spec2Model ----
(***************************************************************************)
(* Two-tier commit pipeline of Thesis-Extension.                           *)
(*                                                                         *)
(* Spec   : the L1 commit pipeline.  HTTP POST /l1/commit on any L1        *)
(*          replica, the per-replica PostgreSQL index, the consensus       *)
(*          adapter (RunConsensus / BroadcastTxCommit), the ABCI           *)
(*          application (CheckTx, ProcessProposal, FinalizeBlock, Commit)  *)
(*          and its per-replica Badger ledger store.                       *)
(* SpecL2 : the L2 session state machine of one shard (create, scan,       *)
(*          validate, qc, label, commit) with the L1 seen through the      *)
(*          L2->L1 client.                                                 *)
(* SpecRace : the shard alone, with requests served at the same time, each *)
(*          repository method being one database transaction.              *)
(* SpecRouter : two L2 shards and one request on its way through their web *)
(*          servers and routers (header check, forwarding, route lookup),  *)
(*          for any registry copies.                                       *)
(* SpecABCI : the ABCI application of one replica called by the consensus  *)
(*          engine with any transaction and any proposal.                  *)
(* SpecLinks : the repository of one shard with requests on every session. *)
(* SpecShutdown : one L1 replica from start-up to the end of its process   *)
(*          (signal, HTTP shutdown, node stop, store close).               *)
(* SpecRoutes : the route lookup of the L1 and L2 registries.              *)
(***************************************************************************)
EXTENDS Integers, Sequences, FiniteSets, TLC

(***************************************************************************)
(* Bounds of the model.                                                    *)
(***************************************************************************)
\* number of POST /l1/commit requests issued in one run
MaxReq == 2
\* number of blocks the consensus engine decides in one run
MaxHeight == 2
\* largest number of transactions in one block
MaxBlockTxs == 2

(***************************************************************************)
(* L1 replicas.  setup-l1-network.sh gives every l1-node<i> its own        *)
(* l1-postgres<i>; main() connects the replica to --postgres-host.         *)
(***************************************************************************)
Nodes == {"l1-node0", "l1-node1"}

\* Seed(): the shard registry rows created in every replica's database
ShardTable == {"shard-a", "shard-b"}

(***************************************************************************)
(* Byte strings.  A ShardedCommitRequest is a record; json.Marshal turns   *)
(* it into a string and json.Unmarshal parses a string back.  The fields   *)
(* the pipeline never reads (operator_id, session_data, l2_node_id,        *)
(* timestamp) are folded into one field, stamp.                            *)
(***************************************************************************)
Stamp(r) == "t" \o ToString(r)

Stamps == {Stamp(r) : r \in 1..MaxReq}

ShardIds == {"", "shard-a", "shard-b", "shard-x"}

SessionIds == {"", "SES-1", "SES-2"}

ClientGroups == {"", "group-a", "group-b"}

ShardedCommitRequest ==
    [shard_id : ShardIds, session_id : SessionIds,
     client_group : ClientGroups, stamp : Stamps]

Marshal(p) ==
    "{" \o p.shard_id \o "," \o p.session_id \o "," \o p.client_group
        \o "," \o p.stamp \o "}"

\* a body that is not JSON
Garbage == "not-json"

\* a request of another shard and session whose ids, written one after the
\* other, read the same as those of session SES-1 of shard-a
OtherSplit ==
    [shard_id |-> "hard-a", session_id |-> "SES-1s",
     client_group |-> "group-a", stamp |-> Stamp(1)]

\* the requests a body can parse to
ParsedRequests == ShardedCommitRequest \cup {OtherSplit}

\* the strings that parse, each with the request it parses to
ParseTable ==
    [b \in {Marshal(p) : p \in ParsedRequests} |->
        CHOOSE p \in ParsedRequests : Marshal(p) = b]

Unmarshal(b) ==
    IF b \in DOMAIN ParseTable
    THEN [ok |-> TRUE, v |-> ParseTable[b]]
    ELSE [ok |-> FALSE,
          v |-> [shard_id |-> "", session_id |-> "", client_group |-> "", stamp |-> ""]]

\* sha256.Sum256: a digest is written as the term sha256(<preimage>), so two
\* digests are equal exactly when their preimages are
Sha256(s) == "sha256(" \o s \o ")"

\* hex.EncodeToString
HexEncode(b) == "0x" \o b

\* hex.EncodeToString(result.result.Hash): the engine's hash of the tx bytes
TxHashOf(tx) == HexEncode(Sha256(tx))

generateTxID(sessionID, shardID) == HexEncode(Sha256(sessionID \o shardID))

\* the bodies a client sends in request r
Commit1(r) == [shard_id |-> "shard-a", session_id |-> "SES-1", client_group |-> "group-a", stamp |-> Stamp(r)]

Commit2(r) == [shard_id |-> "shard-b", session_id |-> "SES-2", client_group |-> "group-b", stamp |-> Stamp(r)]

\* the bodies the r-th request may carry
RequestBodyTable ==
    [r \in 1..MaxReq |->
        { Marshal(Commit1(r)),
          Marshal(Commit2(r)),
          Marshal([Commit1(r) EXCEPT !.shard_id = ""]),
          Marshal([Commit1(r) EXCEPT !.session_id = ""]),
          Marshal([Commit1(r) EXCEPT !.client_group = ""]),
          Marshal([Commit1(r) EXCEPT !.shard_id = "shard-x"]),
          Garbage }]

RequestBodies(r) == RequestBodyTable[r]

(***************************************************************************)
(* Keyed stores.                                                           *)
(***************************************************************************)
EmptyKV == [k \in {} |-> ""]

Put(kv, k, v) == [x \in (DOMAIN kv) \cup {k} |-> IF x = k THEN v ELSE kv[x]]

\* writes of w laid over the store kv
Overlay(kv, w) ==
    [x \in (DOMAIN kv) \cup (DOMAIN w) |-> IF x \in DOMAIN w THEN w[x] ELSE kv[x]]

NoRow == [present |-> FALSE]

\* NULL tx_hash column
NoHash == ""

VARIABLES
    reqs,          \* the /l1/commit requests: position in the handler, response
    idx,           \* per replica: L1 Session index table, by session_id
    txrows,        \* per replica: L1 Transaction table, by session_id
    mempool,       \* transactions admitted by CheckTx and not yet in a block
    chain,         \* the blocks decided by the consensus engine, in order
    height,        \* per replica: height of the last block given to FinalizeBlock
    onGoingBlock,  \* per replica: the Badger write transaction of the block
    ledger,        \* per replica: the committed Badger store
    sessions,      \* L2 shard: Session table, by session_id
    packages,      \* L2 shard: Package table, by package_id
    qcRecords,     \* L2 shard: QCRecord table, by session_id (unique index)
    labels,        \* L2 shard: Label table, by session_id (unique index)
    calls,         \* L2 shard: commit handlers that are calling the L1
    txns,          \* L2 shard: database transactions of requests served at once
    shardGroup,    \* per L2 shard: the client group it is configured with
    registry,      \* per L2 shard: its copy of the L1 shard registry
    store,         \* per L2 shard: the session rows of its database
    rcall,         \* the request on its way through the L2 routers
    responses,     \* per replica: the last FinalizeBlockResponse it returned
    checked,       \* the last CheckTx call: transaction and response code
    proposal,      \* the last ProcessProposal call: transactions and status
    main           \* the process of an L1 replica: position in main(), Badger store

varsL1 == <<reqs, idx, txrows, mempool, chain, height, onGoingBlock, ledger,
           responses>>

varsL2 == <<sessions, packages, qcRecords, labels, calls, txns>>

varsRouter == <<shardGroup, registry, store, rcall>>

vars == <<reqs, idx, txrows, mempool, chain, height, onGoingBlock, ledger,
          sessions, packages, qcRecords, labels, calls, txns,
          shardGroup, registry, store, rcall, responses, checked, proposal, main>>

varsCalls == <<checked, proposal, main>>

ReqIds == 1..MaxReq

\* ids CreateSession can draw
L2SessionIds == SessionIds \ {""}

\* Seed() of the L2 repository
PackageIds == {"PKG-001", "PKG-002"}

CourierIds == {"CUR-001", "CUR-002", "CUR-003"}

NoCall == [pc |-> "none", sid |-> "", status |-> 0, retry |-> FALSE]

\* number of requests the shard serves at the same time
MaxTxn == 2

TxnIds == 1..MaxTxn

NoTxn ==
    [pc |-> "none", op |-> "", sid |-> "", arg |-> "", passed |-> FALSE,
     pkg |-> "", row |-> NoRow, status |-> 0]

IdleReq ==
    [pc |-> "idle", node |-> "", body |-> "", code |-> "", cause |-> "",
     status |-> 0, http |-> 0, tx_hash |-> NoHash, block_height |-> 0]

\* client groups an L2 shard can be configured with (CLIENT_GROUP)
RouterGroups == {"group-a", "group-b"}

\* Headers["X-Client-Group"] of a Request whose Headers map has no such key
NoHeader == ""

\* GetShardByClientGroup found no shard
NoShard == ""

\* Split(path, "/") of the request paths
PathStart == <<"", "session", "start">>

PathCommit == <<"", "session", "SES-1", "commit">>

PathEmptyId == <<"", "session", "", "commit">>

PathUnknown == <<"", "session", "SES-1", "nope">>

PathInfo == <<"", "info">>

RouterPaths == {PathStart, PathCommit, PathEmptyId, PathUnknown, PathInfo}

\* paths that net/http's ServeMux hands to a handler unchanged (a path with
\* an empty segment is answered by the mux with a redirect to the cleaned path)
CleanPaths == RouterPaths \ {PathEmptyId}

RouterMethods == {"GET", "POST"}

StartBody == "{operator_id: OPR-001}"

RouterBodies == {StartBody, Garbage}

\* session id CreateSession draws on a shard
RouterSessionId == "SES-1"

\* the session row CreateSession inserts
RouterSession == [present |-> TRUE, status |-> "active", operator_id |-> "OPR-001"]

NoBody == [message |-> "", session_id |-> "", shard_id |-> "", client_group |-> ""]

IdleCall ==
    [pc |-> "idle", via |-> "", entry |-> "", Method |-> "", Path |-> <<>>,
     Body |-> "", Header |-> NoHeader, at |-> "", hops |-> 0, handledBy |-> "",
     handler |-> "", failed |-> FALSE, err |-> FALSE, status |-> 0, body |-> NoBody]

\* no FinalizeBlock has returned yet
NoResponse == [TxResults |-> <<>>, AppHash |-> ""]

\* no CheckTx call yet
NoCheck == [tx |-> "", code |-> -1]

\* no ProcessProposal call yet
NoProposal == [txs |-> <<>>, status |-> ""]

\* main() after webserver.Start(): the Badger store is open, the consensus
\* node runs and the HTTP server listens; pending is the set of requests that
\* wait for their broadcast when the shutdown begins
MainStarted == [pc |-> "running", db |-> "open", pending |-> {}]

\* state of the L1 replicas and of the L2 shard database after start-up
InitBase ==
    /\ reqs = [r \in ReqIds |-> IdleReq]
    /\ idx = [n \in Nodes |-> [s \in SessionIds |-> NoRow]]
    /\ txrows = [n \in Nodes |-> [s \in SessionIds |-> NoRow]]
    /\ mempool = {}
    /\ chain = <<>>
    /\ height = [n \in Nodes |-> 0]
    /\ onGoingBlock = [n \in Nodes |-> [open |-> FALSE, writes |-> EmptyKV]]
    /\ ledger = [n \in Nodes |-> EmptyKV]
    /\ sessions = [s \in L2SessionIds |-> NoRow]
    /\ packages = [p \in PackageIds |->
                     [status |-> "pending", is_trusted |-> FALSE, session_id |-> ""]]
    /\ qcRecords = [s \in L2SessionIds |-> NoRow]
    /\ labels = [s \in L2SessionIds |-> NoRow]
    /\ calls = [r \in ReqIds |-> NoCall]
    /\ txns = [i \in TxnIds |-> NoTxn]
    /\ rcall = IdleCall
    /\ responses = [n \in Nodes |-> NoResponse]
    /\ checked = NoCheck
    /\ proposal = NoProposal
    /\ main = MainStarted

\* shard-a serves group-a, shard-b serves group-b, and both hold the seeded registry
Init ==
    /\ InitBase
    /\ store = [s \in ShardTable |-> NoRow]
    /\ shardGroup = [s \in ShardTable |-> IF s = "shard-a" THEN "group-a" ELSE "group-b"]
    /\ registry = [s \in ShardTable |->
                     [g \in RouterGroups |-> IF g = "group-a" THEN "shard-a" ELSE "shard-b"]]

\* shard-a serves group-a and shard-b either group; any registry copies; each
\* shard has or has not created its session before
InitRouter ==
    /\ InitBase
    /\ store \in [ShardTable -> {NoRow, RouterSession}]
    /\ shardGroup \in {f \in [ShardTable -> RouterGroups] : f["shard-a"] = "group-a"}
    /\ registry \in [ShardTable -> [RouterGroups -> ShardTable \cup {NoShard}]]

(***************************************************************************)
(* ABCI application.                                                       *)
(***************************************************************************)
\* CheckTx that does not look at client_group
CheckTxNoGroup(tx) ==
    LET u == Unmarshal(tx) IN
    IF ~u.ok THEN 1
    ELSE IF u.v.shard_id = "" \/ u.v.session_id = "" THEN 1
    ELSE 0

\* CheckTx: response code for a transaction
CheckTx(tx) ==
    LET u == Unmarshal(tx) IN
    IF ~u.ok THEN 1
    ELSE IF u.v.shard_id = "" \/ u.v.session_id = "" \/ u.v.client_group = "" THEN 1
    ELSE 0

\* ProcessProposal that validates the first transaction only
ProcessProposalHeadOnly(txs) ==
    IF txs = <<>> THEN "ACCEPT"
    ELSE LET u == Unmarshal(Head(txs)) IN
         IF ~u.ok THEN "REJECT"
         ELSE IF u.v.shard_id = "" \/ u.v.session_id = "" THEN "REJECT"
         ELSE "ACCEPT"

RECURSIVE ProcessProposal(_)
ProcessProposal(txs) ==
    IF txs = <<>> THEN "ACCEPT"
    ELSE LET u == Unmarshal(Head(txs)) IN
         IF ~u.ok THEN "REJECT"
         ELSE IF u.v.shard_id = "" \/ u.v.session_id = "" THEN "REJECT"
         ELSE ProcessProposal(Tail(txs))

TxKey(txID) == "tx:" \o txID

ShardKey(shardID, sessionID) == "shard:" \o shardID \o ":session:" \o sessionID

StatusKey(txID) == "status:" \o txID

\* storeShardCommit: the three Set calls on the open block transaction w and
\* the ExecTxResult
storeShardCommit(w, txID, shardCommit, status, rawTx) ==
    [writes |-> Put(Put(Put(w, TxKey(txID), rawTx),
                        ShardKey(shardCommit.shard_id, shardCommit.session_id), rawTx),
                    StatusKey(txID), status),
     result |-> [code |-> 0, data |-> txID, log |-> status,
                 events |-> << <<"session_id", shardCommit.session_id>>,
                               <<"shard_id", shardCommit.shard_id>>,
                               <<"client_group", shardCommit.client_group>>,
                               <<"tx_id", txID>>,
                               <<"status", status>> >>]]

\* the loop of FinalizeBlock over req.Txs, in block order
RECURSIVE ExecTxs(_, _)
ExecTxs(txs, w) ==
    IF txs = <<>> THEN [writes |-> w, results |-> <<>>]
    ELSE LET u == Unmarshal(Head(txs))
             one == IF ~u.ok
                    THEN [writes |-> w,
                          result |-> [code |-> 1, data |-> "",
                                      log |-> "Invalid shard commit format",
                                      events |-> <<>>]]
                    ELSE storeShardCommit(w, generateTxID(u.v.session_id, u.v.shard_id),
                                          u.v, "accepted", Head(txs))
             rest == ExecTxs(Tail(txs), one.writes)
         IN [writes |-> rest.writes, results |-> <<one.result>> \o rest.results]

RECURSIVE ConcatData(_)
ConcatData(txResults) ==
    IF txResults = <<>> THEN ""
    ELSE Head(txResults).data \o ConcatData(Tail(txResults))

calculateAppHash(txResults) == Sha256(ConcatData(txResults))

\* int64ToBytes that keeps the low byte only
int64ToBytesLow(i) ==
    [k \in 1..8 |-> IF k <= 7 THEN 0 ELSE i % 256]

\* int64ToBytes: big-endian, 8 bytes (heights of the model are 0 <= i < 2^31)
int64ToBytes(i) ==
    [k \in 1..8 |-> IF k <= 4 THEN 0 ELSE (i \div (256 ^ (8 - k))) % 256]

\* bytesToInt64
bytesToInt64(buf) ==
    IF Len(buf) < 8 THEN 0
    ELSE buf[5] * (256 ^ 3) + buf[6] * (256 ^ 2) + buf[7] * 256 + buf[8]

HeightKey == "last_block_height"

AppHashKey == "last_block_app_hash"

\* FinalizeBlock whose app hash depends on the replica
FinalizeBlockOfNode(n) ==
    /\ ~onGoingBlock[n].open
    /\ height[n] < Len(chain)
    /\ LET h == height[n] + 1
           ex == ExecTxs(chain[h], EmptyKV)
           appHash == calculateAppHash(ex.results) \o n
       IN /\ onGoingBlock' = [onGoingBlock EXCEPT ![n] =
                  [open |-> TRUE,
                   writes |-> Put(Put(ex.writes, HeightKey, int64ToBytes(h)),
                                  AppHashKey, appHash)]]
          /\ height' = [height EXCEPT ![n] = h]
          /\ responses' = [responses EXCEPT ![n] =
                 [TxResults |-> ex.results, AppHash |-> appHash]]
    /\ UNCHANGED <<reqs, idx, txrows, mempool, chain, ledger>>
    /\ UNCHANGED varsL2
    /\ UNCHANGED varsRouter
    /\ UNCHANGED varsCalls

\* FinalizeBlock on replica n for the block txs at height h
FinalizeBlock(n) ==
    /\ ~onGoingBlock[n].open
    /\ height[n] < Len(chain)
    /\ LET h == height[n] + 1
           ex == ExecTxs(chain[h], EmptyKV)
           appHash == calculateAppHash(ex.results)
       IN /\ onGoingBlock' = [onGoingBlock EXCEPT ![n] =
                  [open |-> TRUE,
                   writes |-> Put(Put(ex.writes, HeightKey, int64ToBytes(h)),
                                  AppHashKey, appHash)]]
          /\ height' = [height EXCEPT ![n] = h]
          /\ responses' = [responses EXCEPT ![n] =
                 [TxResults |-> ex.results, AppHash |-> appHash]]
    /\ UNCHANGED <<reqs, idx, txrows, mempool, chain, ledger>>
    /\ UNCHANGED varsL2
    /\ UNCHANGED varsRouter
    /\ UNCHANGED varsCalls

\* Commit on replica n: the block transaction becomes visible
Commit(n) ==
    /\ onGoingBlock[n].open
    /\ ledger' = [ledger EXCEPT ![n] = Overlay(@, onGoingBlock[n].writes)]
    /\ onGoingBlock' = [onGoingBlock EXCEPT ![n].open = FALSE]
    /\ UNCHANGED <<reqs, idx, txrows, mempool, chain, height>>
    /\ UNCHANGED varsL2
    /\ UNCHANGED varsRouter
    /\ UNCHANGED varsCalls
    /\ UNCHANGED responses

\* Commit on replica n when onGoingBlock.Commit() returns an error that
\* applies part of the block's writes
CommitFailsPartly(n) ==
    /\ onGoingBlock[n].open
    /\ ledger' = [ledger EXCEPT ![n] =
          IF HeightKey \in DOMAIN onGoingBlock[n].writes
          THEN Put(@, HeightKey, onGoingBlock[n].writes[HeightKey])
          ELSE @]
    /\ onGoingBlock' = [onGoingBlock EXCEPT ![n].open = FALSE]
    /\ UNCHANGED <<reqs, idx, txrows, mempool, chain, height, responses>>
    /\ UNCHANGED varsL2
    /\ UNCHANGED varsRouter
    /\ UNCHANGED varsCalls

\* Commit on replica n when onGoingBlock.Commit() returns an error: Badger
\* discards the transaction, the error is logged and an empty CommitResponse
\* is returned
CommitFails(n) ==
    /\ onGoingBlock[n].open
    /\ onGoingBlock' = [onGoingBlock EXCEPT ![n].open = FALSE]
    /\ UNCHANGED <<reqs, idx, txrows, mempool, chain, height, ledger, responses>>
    /\ UNCHANGED varsL2
    /\ UNCHANGED varsRouter
    /\ UNCHANGED varsCalls

\* Info: last committed height of replica n
LastBlockHeight(n) ==
    IF HeightKey \in DOMAIN ledger[n] THEN bytesToInt64(ledger[n][HeightKey]) ELSE 0

\* Info: LastBlockAppHash of replica n (nil when the key is missing)
LastBlockAppHash(n) ==
    IF HeightKey \in DOMAIN ledger[n] /\ AppHashKey \in DOMAIN ledger[n]
    THEN ledger[n][AppHashKey]
    ELSE ""

\* Info: the InfoResponse of replica n
Info(n) ==
    [LastBlockHeight |-> LastBlockHeight(n), LastBlockAppHash |-> LastBlockAppHash(n)]

(***************************************************************************)
(* Consensus engine, as the repository uses it: BroadcastTxCommit runs the *)
(* application's CheckTx, puts the transaction in the mempool, and returns *)
(* when the replica it was called on has committed a block that contains   *)
(* the transaction, or returns an error.                                   *)
(***************************************************************************)
\* sequences of 1..MaxBlockTxs distinct transactions of the mempool
Proposals(pool) ==
    { q \in UNION { [1..k -> pool] : k \in 1..MaxBlockTxs } :
        \A i, j \in DOMAIN q : i # j => q[i] # q[j] }

\* PrepareProposal returns the proposed txs as they are; the block is decided
\* when ProcessProposal accepts it
ProposeBlock ==
    /\ Len(chain) < MaxHeight
    /\ \E txs \in Proposals(mempool) :
          /\ ProcessProposal(txs) = "ACCEPT"
          /\ chain' = Append(chain, txs)
          /\ mempool' = mempool \ {txs[i] : i \in DOMAIN txs}
    /\ UNCHANGED <<reqs, idx, txrows, height, onGoingBlock, ledger>>
    /\ UNCHANGED varsL2
    /\ UNCHANGED varsRouter
    /\ UNCHANGED varsCalls
    /\ UNCHANGED responses

\* transactions handed to the application directly by the consensus engine
AbciTxs ==
    { Marshal(Commit1(1)),
      Marshal(Commit2(1)),
      Marshal([Commit1(1) EXCEPT !.shard_id = ""]),
      Marshal([Commit1(1) EXCEPT !.session_id = ""]),
      Marshal([Commit1(1) EXCEPT !.client_group = ""]),
      Marshal(OtherSplit),
      Garbage }

\* the engine calls CheckTx for a transaction it received
CheckTxCall(tx) ==
    /\ checked' = [tx |-> tx, code |-> CheckTx(tx)]
    /\ UNCHANGED <<proposal, main>>
    /\ UNCHANGED varsL1
    /\ UNCHANGED varsL2
    /\ UNCHANGED varsRouter

\* the engine calls ProcessProposal for a proposed block; an accepted
\* proposal is decided
ProcessProposalCall(txs) ==
    /\ Len(chain) < MaxHeight
    /\ proposal' = [txs |-> txs, status |-> ProcessProposal(txs)]
    /\ IF ProcessProposal(txs) = "ACCEPT"
       THEN chain' = Append(chain, txs)
       ELSE UNCHANGED chain
    /\ UNCHANGED <<reqs, idx, txrows, mempool, height, onGoingBlock, ledger, responses>>
    /\ UNCHANGED <<checked, main>>
    /\ UNCHANGED varsL2
    /\ UNCHANGED varsRouter

\* the replica the blocks are given to
AbciNode == "l1-node0"

NextABCI ==
    \/ \E tx \in AbciTxs : CheckTxCall(tx)
    \/ \E txs \in Proposals(AbciTxs) : ProcessProposalCall(txs)
    \/ FinalizeBlock(AbciNode)
    \/ Commit(AbciNode)
    \/ CommitFails(AbciNode)

SpecABCI == Init /\ [][NextABCI]_vars

\* height of the block that contains tx, 0 when no block does
IncludedAt(tx) ==
    IF \E h \in DOMAIN chain : \E i \in DOMAIN chain[h] : chain[h][i] = tx
    THEN CHOOSE h \in DOMAIN chain : \E i \in DOMAIN chain[h] : chain[h][i] = tx
    ELSE 0

(***************************************************************************)
(* POST /l1/commit.                                                        *)
(***************************************************************************)
\* ReceiveShardCommitHandler: the StatusCode of the Response built for a
\* repository error code ("" is success, BAD_REQUEST the handler's own checks)
HandlerStatus(code) ==
    CASE code = "" -> 202
      [] code = "BAD_REQUEST" -> 400
      [] code = "SHARD_NOT_FOUND" -> 400
      [] code = "SESSION_EXISTS" -> 409
      [] OTHER -> 500

\* ReceiveShardCommitHandler: the error value returned beside the Response
HandlerErr(code) == code # ""

\* handleL1API: the status written to the client
handleL1API(status, err) == IF err THEN 422 ELSE status

\* the request has left the handler and handleL1API has answered
Respond(r, code, cause, txHash, blockHeight) ==
    reqs' = [reqs EXCEPT ![r] =
        [@ EXCEPT !.pc = "done", !.code = code, !.cause = cause,
                  !.status = HandlerStatus(code),
                  !.http = handleL1API(HandlerStatus(code), HandlerErr(code)),
                  !.tx_hash = txHash, !.block_height = blockHeight]]

\* the request as parsed by the handler
CommitReq(r) == Unmarshal(reqs[r].body).v

\* the bytes RunConsensus broadcasts for request r
ConsensusTx(r) == Marshal(CommitReq(r))

\* models.Session built by ReceiveShardCommit before consensus
PreInsertRow(c) ==
    [present |-> TRUE, session_id |-> c.session_id, shard_id |-> c.shard_id,
     client_group |-> c.client_group, status |-> "committed",
     is_committed |-> TRUE, tx_hash |-> NoHash]

\* TransactionRow that leaves the status pending
TransactionRowPending(c, txHash, blockHeight) ==
    [present |-> TRUE, tx_hash |-> txHash, session_id |-> c.session_id,
     shard_id |-> c.shard_id, client_group |-> c.client_group,
     block_height |-> blockHeight, status |-> "pending"]

\* a Transaction row that does not record the block height
TransactionRowNoHeight(c, txHash, blockHeight) ==
    [present |-> TRUE, tx_hash |-> txHash, session_id |-> c.session_id,
     shard_id |-> c.shard_id, client_group |-> c.client_group,
     block_height |-> 0, status |-> "confirmed"]

\* models.Transaction built by ReceiveShardCommit after consensus
TransactionRow(c, txHash, blockHeight) ==
    [present |-> TRUE, tx_hash |-> txHash, session_id |-> c.session_id,
     shard_id |-> c.shard_id, client_group |-> c.client_group,
     block_height |-> blockHeight, status |-> "confirmed"]

\* r.db.Delete(&session)
DeleteSession(r) ==
    idx' = [idx EXCEPT ![reqs[r].node][CommitReq(r).session_id] = NoRow]

\* Handler entry up to the commit of the first database transaction: parse,
\* required fields, shard lookup, pre-insert of the index row.
ReceiveShardCommit(r, n, b) ==
    /\ reqs[r].pc = "idle"
    /\ \A q \in ReqIds : q < r => reqs[q].pc # "idle"
    /\ LET u == Unmarshal(b)
           c == u.v
           arrived == [reqs EXCEPT ![r] = [@ EXCEPT !.node = n, !.body = b]]
           answer(code) ==
               reqs' = [arrived EXCEPT ![r] =
                   [@ EXCEPT !.pc = "done", !.code = code,
                             !.status = HandlerStatus(code),
                             !.http = handleL1API(HandlerStatus(code), HandlerErr(code))]]
       IN IF ~u.ok \/ c.shard_id = "" \/ c.session_id = "" \/ c.client_group = ""
          THEN answer("BAD_REQUEST") /\ UNCHANGED idx
          ELSE IF c.shard_id \notin ShardTable
          THEN answer("SHARD_NOT_FOUND") /\ UNCHANGED idx
          ELSE IF idx[n][c.session_id].present
          THEN answer("SESSION_EXISTS") /\ UNCHANGED idx
          ELSE /\ idx' = [idx EXCEPT ![n][c.session_id] = PreInsertRow(c)]
               /\ reqs' = [arrived EXCEPT ![r].pc = "admitted"]
    /\ UNCHANGED <<txrows, mempool, chain, height, onGoingBlock, ledger>>
    /\ UNCHANGED varsL2
    /\ UNCHANGED varsRouter
    /\ UNCHANGED varsCalls
    /\ UNCHANGED responses

\* RunConsensus: the goroutine calls BroadcastTxCommit, the engine runs CheckTx
\* and takes the transaction; a non-zero CheckTx code comes back at once
RunConsensus(r) ==
    /\ reqs[r].pc = "admitted"
    /\ IF CheckTx(ConsensusTx(r)) = 0
       THEN /\ mempool' = mempool \cup {ConsensusTx(r)}
            /\ reqs' = [reqs EXCEPT ![r].pc = "waiting"]
            /\ UNCHANGED idx
       ELSE /\ DeleteSession(r)
            /\ Respond(r, "CONSENSUS_ERROR", "checktx", NoHash, 0)
            /\ UNCHANGED mempool
    /\ UNCHANGED <<txrows, chain, height, onGoingBlock, ledger>>
    /\ UNCHANGED varsL2
    /\ UNCHANGED varsRouter
    /\ UNCHANGED varsCalls
    /\ UNCHANGED responses

\* BroadcastTxCommit returns an error without having taken the transaction
BroadcastError(r) ==
    /\ reqs[r].pc = "admitted"
    /\ DeleteSession(r)
    /\ Respond(r, "CONSENSUS_ERROR", "broadcast", NoHash, 0)
    /\ UNCHANGED <<txrows, mempool, chain, height, onGoingBlock, ledger>>
    /\ UNCHANGED varsL2
    /\ UNCHANGED varsRouter
    /\ UNCHANGED varsCalls
    /\ UNCHANGED responses

\* the replica of request r has committed the block with its transaction
CommittedFor(r) ==
    /\ IncludedAt(ConsensusTx(r)) # 0
    /\ IncludedAt(ConsensusTx(r)) <= height[reqs[r].node]
    /\ IncludedAt(ConsensusTx(r)) < height[reqs[r].node] \/ ~onGoingBlock[reqs[r].node].open

\* BroadcastTxCommit gives up waiting for the transaction to be committed and
\* returns an error; the transaction stays where it is
BroadcastTimeout(r) ==
    /\ reqs[r].pc = "waiting"
    /\ ~CommittedFor(r)
    /\ DeleteSession(r)
    /\ Respond(r, "CONSENSUS_ERROR", "timeout", NoHash, 0)
    /\ UNCHANGED <<txrows, mempool, chain, height, onGoingBlock, ledger>>
    /\ UNCHANGED varsL2
    /\ UNCHANGED varsRouter
    /\ UNCHANGED varsCalls
    /\ UNCHANGED responses

\* SaveCommit without the insert of the Transaction row
SaveCommitIndexOnly(n, c, txHash, blockHeight) ==
    /\ idx' = [idx EXCEPT ![n][c.session_id] =
                  [PreInsertRow(c) EXCEPT !.tx_hash = txHash]]
    /\ UNCHANGED txrows

\* the second database transaction of ReceiveShardCommit
SaveCommit(n, c, txHash, blockHeight) ==
    /\ idx' = [idx EXCEPT ![n][c.session_id] =
                  [PreInsertRow(c) EXCEPT !.tx_hash = txHash]]
    /\ txrows' = [txrows EXCEPT ![n][c.session_id] = TransactionRow(c, txHash, blockHeight)]

\* BroadcastTxCommit returns the result; index row updated, Transaction row
\* inserted, 202
ConsensusCommitted(r) ==
    /\ reqs[r].pc = "waiting"
    /\ CommittedFor(r)
    /\ LET n == reqs[r].node
           c == CommitReq(r)
           txHash == TxHashOf(ConsensusTx(r))
           blockHeight == IncludedAt(ConsensusTx(r))
       IN IF txrows[n][c.session_id].present
          THEN /\ Respond(r, "DATABASE_ERROR", "", NoHash, 0)
               /\ UNCHANGED <<idx, txrows>>
          ELSE /\ SaveCommit(n, c, txHash, blockHeight)
               /\ Respond(r, "", "", txHash, blockHeight)
    /\ UNCHANGED <<mempool, chain, height, onGoingBlock, ledger>>
    /\ UNCHANGED varsL2
    /\ UNCHANGED varsRouter
    /\ UNCHANGED varsCalls
    /\ UNCHANGED responses

\* BroadcastTxCommit returns the result and the second database transaction
\* fails: rolled back, 500, the pre-inserted row stays
SaveFailed(r) ==
    /\ reqs[r].pc = "waiting"
    /\ CommittedFor(r)
    /\ Respond(r, "DATABASE_ERROR", "", NoHash, 0)
    /\ UNCHANGED <<idx, txrows, mempool, chain, height, onGoingBlock, ledger>>
    /\ UNCHANGED varsL2
    /\ UNCHANGED varsRouter
    /\ UNCHANGED varsCalls
    /\ UNCHANGED responses

(***************************************************************************)
(* L2 shard.  Each repository method runs in one database transaction and  *)
(* is one step; the commit handler is split where it calls the L1.         *)
(***************************************************************************)

\* config.LoadConfig defaults and the generated docker-compose of the shard
ShardID == "shard-a"

ClientGroup == "group-a"

L1Endpoint == "l1-node0"

OperatorIds == {"", "OP-001"}

\* the session and the packages the package requests of a run address
ScanSessionIds == {"SES-1"}

ScanPackageIds == {"", "PKG-001", "PKG-404"}

Signatures == {"", "sig"}

LabelCourierIds == {"", "CUR-001", "CUR-404"}

\* models.Session built by Repository.CreateSession
NewSession(operatorID) ==
    [present |-> TRUE, operator_id |-> operatorID, status |-> "active",
     is_committed |-> FALSE, package_id |-> "", l1_tx_hash |-> NoHash,
     l1_block_height |-> 0]

\* uuid.New(): the next unused id
FreshSessionId(s) ==
    /\ ~sessions[s].present
    /\ s = "SES-2" => sessions["SES-1"].present

\* status CreateSessionHandler answers with
CreateSessionStatus(operatorID) == IF operatorID = "" THEN 400 ELSE 201

CreateSessionHandler(operatorID) ==
    /\ IF CreateSessionStatus(operatorID) # 201
       THEN UNCHANGED sessions
       ELSE \E s \in L2SessionIds :
                /\ FreshSessionId(s)
                /\ sessions' = [sessions EXCEPT ![s] = NewSession(operatorID)]
    /\ UNCHANGED <<packages, qcRecords, labels, calls, txns>>
    /\ UNCHANGED varsL1
    /\ UNCHANGED varsRouter
    /\ UNCHANGED varsCalls

\* UPDATE sessions SET package_id WHERE session_id: no row, no effect
SetSessionPackage(sessionID, packageID) ==
    IF sessions[sessionID].present
    THEN [sessions EXCEPT ![sessionID].package_id = packageID]
    ELSE sessions

\* status ScanPackageHandler answers with: the session is never looked up
ScanPackageStatus(sessionID, packageID) ==
    IF packageID = "" THEN 400
    ELSE IF packageID \notin PackageIds THEN 404
    ELSE 200

ScanPackageHandler(sessionID, packageID) ==
    /\ IF ScanPackageStatus(sessionID, packageID) # 200
       THEN UNCHANGED <<packages, sessions>>
       ELSE /\ packages' = [packages EXCEPT ![packageID] =
                   [@ EXCEPT !.status = "pending_validation", !.session_id = sessionID]]
            /\ sessions' = SetSessionPackage(sessionID, packageID)
    /\ UNCHANGED <<qcRecords, labels, calls, txns>>
    /\ UNCHANGED varsL1
    /\ UNCHANGED varsRouter
    /\ UNCHANGED varsCalls

\* status ValidatePackageHandler answers with
ValidatePackageStatus(sessionID, signature, packageID) ==
    IF signature = "" \/ packageID = "" THEN 400
    ELSE IF packageID \notin PackageIds THEN 404
    ELSE 200

ValidatePackageHandler(sessionID, signature, packageID) ==
    /\ IF ValidatePackageStatus(sessionID, signature, packageID) # 200
       THEN UNCHANGED packages
       ELSE /\ packages' = [packages EXCEPT ![packageID] =
                   [is_trusted |-> TRUE, status |-> "validated", session_id |-> sessionID]]
    /\ UNCHANGED <<sessions, qcRecords, labels, calls, txns>>
    /\ UNCHANGED varsL1
    /\ UNCHANGED varsRouter
    /\ UNCHANGED varsCalls

\* packages linked to the session; First() takes the lowest primary key
LinkedPackages(sessionID) == {p \in PackageIds : packages[p].session_id = sessionID}

FirstPackage(sessionID) ==
    IF "PKG-001" \in LinkedPackages(sessionID) THEN "PKG-001" ELSE "PKG-002"

\* status QualityCheckHandler answers with; a second QC record of the
\* session breaks the unique index and the handler answers 500
QualityCheckStatus(sessionID) ==
    IF ~sessions[sessionID].present \/ LinkedPackages(sessionID) = {} THEN 404
    ELSE IF qcRecords[sessionID].present THEN 500
    ELSE 200

\* QualityCheck that keeps the package update of a refused second record
QualityCheckHandlerNoRollback(sessionID, passed) ==
    /\ IF QualityCheckStatus(sessionID) = 404
       THEN UNCHANGED <<packages, qcRecords>>
       ELSE /\ qcRecords' = [qcRecords EXCEPT ![sessionID] =
                   IF @.present THEN @ ELSE [present |-> TRUE, passed |-> passed]]
            /\ packages' = [packages EXCEPT ![FirstPackage(sessionID)].status =
                   IF passed THEN "qc_passed" ELSE "qc_failed"]
    /\ UNCHANGED <<sessions, labels, calls, txns>>
    /\ UNCHANGED varsL1
    /\ UNCHANGED varsRouter
    /\ UNCHANGED varsCalls

QualityCheckHandler(sessionID, passed) ==
    /\ IF QualityCheckStatus(sessionID) # 200
       THEN UNCHANGED <<packages, qcRecords>>
       ELSE /\ qcRecords' = [qcRecords EXCEPT ![sessionID] =
                   [present |-> TRUE, passed |-> passed]]
            /\ packages' = [packages EXCEPT ![FirstPackage(sessionID)].status =
                   IF passed THEN "qc_passed" ELSE "qc_failed"]
    /\ UNCHANGED <<sessions, labels, calls, txns>>
    /\ UNCHANGED varsL1
    /\ UNCHANGED varsRouter
    /\ UNCHANGED varsCalls

\* a labels table without the unique index on session_id
LabelExistsNever(sessionID) == FALSE

\* the label's unique index on session_id
LabelExists(sessionID) == labels[sessionID].present

\* the foreign key of labels.session_id, from Session's has-one Label
LabelSessionExists(sessionID) == sessions[sessionID].present

\* status LabelPackageHandler answers with: only the courier is looked up,
\* the insert of the label fails on the foreign key or the unique index
LabelPackageStatus(sessionID, courierID) ==
    IF courierID = "" THEN 400
    ELSE IF courierID \notin CourierIds THEN 404
    ELSE IF ~LabelSessionExists(sessionID) \/ LabelExists(sessionID) THEN 500
    ELSE 200

LabelPackageHandler(sessionID, courierID) ==
    /\ IF LabelPackageStatus(sessionID, courierID) # 200
       THEN UNCHANGED <<packages, sessions, labels>>
       ELSE /\ labels' = [labels EXCEPT ![sessionID] =
                   [present |-> TRUE, courier_id |-> courierID]]
            /\ packages' = [p \in PackageIds |->
                   IF packages[p].session_id = sessionID
                   THEN [packages[p] EXCEPT !.status = "labeled"]
                   ELSE packages[p]]
            /\ sessions' = IF sessions[sessionID].present
                           THEN [sessions EXCEPT ![sessionID].status = "completed"]
                           ELSE sessions
    /\ UNCHANGED <<qcRecords, calls, txns>>
    /\ UNCHANGED varsL1
    /\ UNCHANGED varsRouter
    /\ UNCHANGED varsCalls

Next ==
    \/ \E r \in ReqIds, n \in Nodes : \E b \in RequestBodies(r) : ReceiveShardCommit(r, n, b)
    \/ \E r \in ReqIds : RunConsensus(r)
    \/ \E r \in ReqIds : BroadcastError(r)
    \/ \E r \in ReqIds : BroadcastTimeout(r)
    \/ \E r \in ReqIds : ConsensusCommitted(r)
    \/ \E r \in ReqIds : SaveFailed(r)
    \/ ProposeBlock
    \/ \E n \in Nodes : FinalizeBlock(n)
    \/ \E n \in Nodes : Commit(n)

Spec == Init /\ [][Next]_vars

(***************************************************************************)
(* Shutdown of an L1 replica (specification SpecShutdown).                 *)
(***************************************************************************)

\* the replica whose process is followed
MainNode == "l1-node0"

\* the consensus node is started and not yet stopped
NodeRunning == main.pc \in {"running", "shutdown", "httpDown"}

\* the requests a handler of the replica is still serving
InFlight == {r \in ReqIds : reqs[r].pc \in {"admitted", "waiting"}}

\* <-c and webserver.Shutdown(ctx): the listener is closed at once
Shutdown ==
    /\ main.pc = "running"
    /\ main' = [main EXCEPT !.pc = "shutdown",
                            !.pending = {r \in ReqIds : reqs[r].pc = "waiting"}]
    /\ UNCHANGED <<checked, proposal>>
    /\ UNCHANGED varsL1
    /\ UNCHANGED varsL2
    /\ UNCHANGED varsRouter

\* http.Server.Shutdown returns: every connection is idle, or the deadline
\* of 15 seconds has passed while handlers still run
ShutdownReturns ==
    /\ main.pc = "shutdown"
    /\ main' = [main EXCEPT !.pc = "httpDown"]
    /\ UNCHANGED <<checked, proposal>>
    /\ UNCHANGED varsL1
    /\ UNCHANGED varsL2
    /\ UNCHANGED varsRouter

\* deferred: node.Stop(); node.Wait()
NodeStop ==
    /\ main.pc = "httpDown"
    /\ main' = [main EXCEPT !.pc = "nodeStopped"]
    /\ UNCHANGED <<checked, proposal>>
    /\ UNCHANGED varsL1
    /\ UNCHANGED varsL2
    /\ UNCHANGED varsRouter

\* deferred: db.Close(), then main returns and the process ends with the
\* handlers that still run; the write transaction of an open block is gone
DbClose ==
    /\ main.pc = "nodeStopped"
    /\ main' = [main EXCEPT !.pc = "exited", !.db = "closed"]
    /\ reqs' = [r \in ReqIds |->
                  IF r \in InFlight THEN [reqs[r] EXCEPT !.pc = "lost"] ELSE reqs[r]]
    /\ UNCHANGED <<idx, txrows, mempool, chain, height, onGoingBlock, ledger, responses>>
    /\ UNCHANGED <<checked, proposal>>
    /\ UNCHANGED varsL2
    /\ UNCHANGED varsRouter

\* one replica from start-up to the end of its process
NextShutdown ==
    \/ main.pc = "running"
          /\ \E r \in ReqIds : \E b \in RequestBodies(r) : ReceiveShardCommit(r, MainNode, b)
    \/ NodeRunning /\ \E r \in ReqIds : RunConsensus(r)
    \/ main.pc # "exited" /\ \E r \in ReqIds : BroadcastError(r)
    \/ main.pc # "exited" /\ \E r \in ReqIds : BroadcastTimeout(r)
    \/ main.pc # "exited" /\ \E r \in ReqIds : ConsensusCommitted(r)
    \/ main.pc # "exited" /\ \E r \in ReqIds : SaveFailed(r)
    \/ NodeRunning /\ ProposeBlock
    \/ NodeRunning /\ FinalizeBlock(MainNode)
    \/ NodeRunning /\ Commit(MainNode)
    \/ Shutdown
    \/ ShutdownReturns
    \/ NodeStop
    \/ DbClose

SpecShutdown == Init /\ [][NextShutdown]_vars

\* a shard configured with a shard id the L1 does not know
CommitBodyUnknownShard(sessionID, r) ==
    Marshal([shard_id |-> "shard-x", session_id |-> sessionID,
             client_group |-> ClientGroup, stamp |-> Stamp(r)])

\* CommitRequest marshalled by L1Client.CommitSession for call r
CommitBody(sessionID, r) ==
    Marshal([shard_id |-> ShardID, session_id |-> sessionID,
             client_group |-> ClientGroup, stamp |-> Stamp(r)])

\* the call slot the next L1 round trip of the shard uses
NextCall(r) ==
    /\ calls[r].pc = "none"
    /\ reqs[r].pc = "idle"
    /\ \A q \in ReqIds : q < r => calls[q].pc # "none"

\* CommitSessionHandler without the IsCommitted check
CommitSessionStatusNoConflict(sessionID) ==
    IF ~sessions[sessionID].present THEN 404
    ELSE IF sessions[sessionID].status # "completed" THEN 400
    ELSE 0

\* CommitSessionHandler without the status check
CommitSessionStatusAnyStatus(sessionID) ==
    IF ~sessions[sessionID].present THEN 404
    ELSE IF sessions[sessionID].is_committed THEN 409
    ELSE 0

\* status CommitSessionHandler answers with before any L1 traffic; 0 when
\* it goes on to L1Client.CommitSession
CommitSessionStatus(sessionID) ==
    IF ~sessions[sessionID].present THEN 404
    ELSE IF sessions[sessionID].is_committed THEN 409
    ELSE IF sessions[sessionID].status # "completed" THEN 400
    ELSE 0

\* an earlier commit of the session has answered 502
FailedBefore(sessionID) ==
    \E q \in ReqIds :
        calls[q].pc = "done" /\ calls[q].sid = sessionID /\ calls[q].status = 502

\* CommitSessionHandler up to the HTTP POST of L1Client.CommitSession
CommitSessionHandler(sessionID) ==
    /\ IF CommitSessionStatus(sessionID) # 0
       THEN UNCHANGED <<calls, reqs>>
       ELSE \E r \in ReqIds :
                /\ NextCall(r)
                /\ calls' = [calls EXCEPT ![r] =
                       [pc |-> "calling", sid |-> sessionID, status |-> 0,
                        retry |-> FailedBefore(sessionID)]]
                /\ reqs' = [reqs EXCEPT ![r].body = CommitBody(sessionID, r)]
    /\ UNCHANGED <<sessions, packages, qcRecords, labels, txns>>
    /\ UNCHANGED <<idx, txrows, mempool, chain, height, onGoingBlock, ledger>>
    /\ UNCHANGED varsRouter
    /\ UNCHANGED varsCalls
    /\ UNCHANGED responses

\* the POST reaches the L1 replica the shard is configured with
DeliverCommit(r) ==
    /\ calls[r].pc = "calling"
    /\ ReceiveShardCommit(r, L1Endpoint, reqs[r].body)

\* MarkSessionCommitted that leaves the status as it was
MarkSessionCommittedKeepStatus(sessionID, txHash, blockHeight) ==
    IF sessions[sessionID].present
    THEN [sessions EXCEPT ![sessionID] =
             [@ EXCEPT !.is_committed = TRUE,
                       !.l1_tx_hash = txHash, !.l1_block_height = blockHeight]]
    ELSE sessions

\* Repository.MarkSessionCommitted
MarkSessionCommitted(sessionID, txHash, blockHeight) ==
    IF sessions[sessionID].present
    THEN [sessions EXCEPT ![sessionID] =
             [@ EXCEPT !.is_committed = TRUE, !.status = "committed",
                       !.l1_tx_hash = txHash, !.l1_block_height = blockHeight]]
    ELSE sessions

EndCall(r, status) ==
    calls' = [calls EXCEPT ![r] = [@ EXCEPT !.pc = "done", !.status = status]]

\* CommitSessionHandler that marks the session whatever the L1 answered
CommitResponseAlwaysMarks(r) ==
    /\ calls[r].pc = "calling"
    /\ reqs[r].pc = "done"
    /\ sessions' = MarkSessionCommitted(calls[r].sid, reqs[r].tx_hash,
                                        reqs[r].block_height)
    /\ EndCall(r, IF reqs[r].http \in {200, 202} THEN 200 ELSE 502)
    /\ UNCHANGED <<packages, qcRecords, labels, txns>>
    /\ UNCHANGED varsL1
    /\ UNCHANGED varsRouter
    /\ UNCHANGED varsCalls

\* L1Client.CommitSession returns the L1's answer
CommitResponse(r) ==
    /\ calls[r].pc = "calling"
    /\ reqs[r].pc = "done"
    /\ IF reqs[r].http \in {200, 202}
       THEN /\ sessions' = MarkSessionCommitted(calls[r].sid, reqs[r].tx_hash,
                                              reqs[r].block_height)
            /\ EndCall(r, 200)
       ELSE /\ EndCall(r, 502)
            /\ UNCHANGED sessions
    /\ UNCHANGED <<packages, qcRecords, labels, txns>>
    /\ UNCHANGED varsL1
    /\ UNCHANGED varsRouter
    /\ UNCHANGED varsCalls

\* httpClient.Do fails: the L1 is unreachable and the request is lost
CommitUnreachable(r) ==
    /\ calls[r].pc = "calling"
    /\ reqs[r].pc = "idle"
    /\ reqs' = [reqs EXCEPT ![r].pc = "lost"]
    /\ EndCall(r, 502)
    /\ UNCHANGED <<sessions, packages, qcRecords, labels, txns>>
    /\ UNCHANGED <<idx, txrows, mempool, chain, height, onGoingBlock, ledger>>
    /\ UNCHANGED varsRouter
    /\ UNCHANGED varsCalls
    /\ UNCHANGED responses

\* the 30 s client timeout expires while the L1 still works on the request
CommitTimeout(r) ==
    /\ calls[r].pc = "calling"
    /\ reqs[r].pc \in {"admitted", "waiting"}
    /\ EndCall(r, 502)
    /\ UNCHANGED <<sessions, packages, qcRecords, labels, txns>>
    /\ UNCHANGED varsL1
    /\ UNCHANGED varsRouter
    /\ UNCHANGED varsCalls

\* one shard in front of the L1 replica it is configured with
NextL2 ==
    \/ \E o \in OperatorIds : CreateSessionHandler(o)
    \/ \E s \in ScanSessionIds, p \in ScanPackageIds : ScanPackageHandler(s, p)
    \/ \E s \in ScanSessionIds, g \in Signatures, p \in ScanPackageIds :
           ValidatePackageHandler(s, g, p)
    \/ \E s \in ScanSessionIds, passed \in BOOLEAN : QualityCheckHandler(s, passed)
    \/ \E s \in L2SessionIds, c \in LabelCourierIds : LabelPackageHandler(s, c)
    \/ \E s \in L2SessionIds : CommitSessionHandler(s)
    \/ \E r \in ReqIds : DeliverCommit(r)
    \/ \E r \in ReqIds : CommitResponse(r)
    \/ \E r \in ReqIds : CommitUnreachable(r)
    \/ \E r \in ReqIds : CommitTimeout(r)
    \/ \E r \in ReqIds : RunConsensus(r)
    \/ \E r \in ReqIds : BroadcastError(r)
    \/ \E r \in ReqIds : BroadcastTimeout(r)
    \/ \E r \in ReqIds : ConsensusCommitted(r)
    \/ \E r \in ReqIds : SaveFailed(r)
    \/ ProposeBlock
    \/ FinalizeBlock(L1Endpoint)
    \/ Commit(L1Endpoint)

SpecL2 == Init /\ [][NextL2]_vars

(***************************************************************************)
(* Requests of the shard served at the same time.  net/http serves every   *)
(* request in its own goroutine and each repository method is one database *)
(* transaction under READ COMMITTED: its reads run when it begins, its     *)
(* writes wait for the row locks of the transaction that wrote first and   *)
(* take effect with its commit.                                            *)
(***************************************************************************)
TxnOps == {"scan", "validate", "qc", "label"}

\* package id of a scan or validate request, courier id of a label request
TxnArgs(op) ==
    CASE op \in {"scan", "validate"} -> {"PKG-001", "PKG-404"}
      [] op = "label" -> {"CUR-001", "CUR-404"}
      [] OTHER -> {""}

\* the slot the next request of the shard is served in
NextTxn(i) ==
    /\ txns[i].pc = "none"
    /\ \A q \in TxnIds : q < i => txns[q].pc # "none"

\* status after the lookups a repository method runs before its first write
ReadStatus(op, sessionID, arg) ==
    CASE op = "scan" -> ScanPackageStatus(sessionID, arg)
      [] op = "validate" -> ValidatePackageStatus(sessionID, "sig", arg)
      [] op = "qc" ->
           IF ~sessions[sessionID].present \/ LinkedPackages(sessionID) = {}
           THEN 404 ELSE 200
      [] OTHER ->
           IF arg = "" THEN 400 ELSE IF arg \notin CourierIds THEN 404 ELSE 200

\* the package the method loads into its struct
ReadPackage(op, sessionID, arg) ==
    CASE op \in {"scan", "validate"} -> arg
      [] op = "qc" -> FirstPackage(sessionID)
      [] OTHER -> ""

\* dbTx.Begin() and the lookups of the method
BeginTxn(i, op, sessionID, arg, passed) ==
    /\ NextTxn(i)
    /\ txns' = [txns EXCEPT ![i] =
          IF ReadStatus(op, sessionID, arg) # 200
          THEN [NoTxn EXCEPT !.pc = "done", !.op = op, !.sid = sessionID,
                             !.status = ReadStatus(op, sessionID, arg)]
          ELSE [pc |-> "open", op |-> op, sid |-> sessionID, arg |-> arg,
                passed |-> passed, pkg |-> ReadPackage(op, sessionID, arg),
                row |-> IF ReadPackage(op, sessionID, arg) = "" THEN NoRow
                        ELSE packages[ReadPackage(op, sessionID, arg)],
                status |-> 0]]
    /\ UNCHANGED <<sessions, packages, qcRecords, labels, calls>>
    /\ UNCHANGED varsL1
    /\ UNCHANGED varsRouter
    /\ UNCHANGED varsCalls

\* the writes of a schema whose quality_checks table has no unique index
WriteStatusNoIndex(i) ==
    CASE txns[i].op = "label" ->
           IF ~LabelSessionExists(txns[i].sid) \/ LabelExists(txns[i].sid)
           THEN 500 ELSE 200
      [] OTHER -> 200

\* status of the writes of the method: the inserts of a QC record and of a
\* label fail on the unique index, the label's also on its foreign key
WriteStatus(i) ==
    CASE txns[i].op = "qc" ->
           IF qcRecords[txns[i].sid].present THEN 500 ELSE 200
      [] txns[i].op = "label" ->
           IF ~LabelSessionExists(txns[i].sid) \/ LabelExists(txns[i].sid)
           THEN 500 ELSE 200
      [] OTHER -> 200

\* the writes of the method and dbTx.Commit(), or dbTx.Rollback()
EndTxn(i) ==
    /\ txns[i].pc = "open"
    /\ txns' = [txns EXCEPT ![i] =
          [NoTxn EXCEPT !.pc = "done", !.op = txns[i].op, !.sid = txns[i].sid,
                        !.status = WriteStatus(i)]]
    /\ IF WriteStatus(i) # 200
       THEN UNCHANGED <<sessions, packages, qcRecords, labels>>
       ELSE CASE txns[i].op = "scan" ->
                   /\ packages' = [packages EXCEPT ![txns[i].pkg] =
                          [txns[i].row EXCEPT !.status = "pending_validation",
                                              !.session_id = txns[i].sid]]
                   /\ sessions' = SetSessionPackage(txns[i].sid, txns[i].pkg)
                   /\ UNCHANGED <<qcRecords, labels>>
              [] txns[i].op = "validate" ->
                   /\ packages' = [packages EXCEPT ![txns[i].pkg] =
                          [txns[i].row EXCEPT !.is_trusted = TRUE,
                                              !.status = "validated",
                                              !.session_id = txns[i].sid]]
                   /\ UNCHANGED <<sessions, qcRecords, labels>>
              [] txns[i].op = "qc" ->
                   /\ qcRecords' = [qcRecords EXCEPT ![txns[i].sid] =
                          [present |-> TRUE, passed |-> txns[i].passed]]
                   /\ packages' = [packages EXCEPT ![txns[i].pkg] =
                          [txns[i].row EXCEPT !.status =
                              IF txns[i].passed THEN "qc_passed" ELSE "qc_failed"]]
                   /\ UNCHANGED <<sessions, labels>>
              [] OTHER ->
                   /\ labels' = [labels EXCEPT ![txns[i].sid] =
                          [present |-> TRUE, courier_id |-> txns[i].arg]]
                   /\ packages' = [p \in PackageIds |->
                          IF packages[p].session_id = txns[i].sid
                          THEN [packages[p] EXCEPT !.status = "labeled"]
                          ELSE packages[p]]
                   /\ sessions' = [sessions EXCEPT ![txns[i].sid].status = "completed"]
                   /\ UNCHANGED qcRecords
    /\ UNCHANGED calls
    /\ UNCHANGED varsL1
    /\ UNCHANGED varsRouter
    /\ UNCHANGED varsCalls

\* no request is being served at the same time as another
Quiet == \A i \in TxnIds : txns[i].pc = "none"

\* the shard alone: requests one after the other, then requests at once
NextRace ==
    \/ Quiet /\ \E o \in OperatorIds : CreateSessionHandler(o)
    \/ Quiet /\ \E s \in ScanSessionIds, p \in ScanPackageIds : ScanPackageHandler(s, p)
    \/ Quiet /\ \E s \in ScanSessionIds, g \in Signatures, p \in ScanPackageIds :
                    ValidatePackageHandler(s, g, p)
    \/ Quiet /\ \E s \in ScanSessionIds, passed \in BOOLEAN : QualityCheckHandler(s, passed)
    \/ Quiet /\ \E s \in L2SessionIds, c \in LabelCourierIds : LabelPackageHandler(s, c)
    \/ \E i \in TxnIds, op \in TxnOps, s \in ScanSessionIds :
           \E a \in TxnArgs(op), passed \in (IF op = "qc" THEN BOOLEAN ELSE {FALSE}) :
               BeginTxn(i, op, s, a, passed)
    \/ \E i \in TxnIds : EndTxn(i)

SpecRace == Init /\ [][NextRace]_vars

(***************************************************************************)
(* L2 request router: ServeMux, handleSession / handleInfo,                *)
(* Request.GenerateResponse, CheckShardAndRedirect, ForwardToCorrectShard. *)
(* A path is the sequence strings.Split(path, "/") yields.                 *)
(***************************************************************************)
\* strings.HasPrefix(segment, ":") over the segments in use
HasColonPrefix(seg) == seg \in {":id", ":group", ":shard", ":hash"}

\* RegisterDefaultServices: method, pattern and handler of every route
DefaultServices ==
    { [Method |-> "POST", Path |-> <<"", "session", "start">>,
       Handler |-> "CreateSessionHandler"],
      [Method |-> "GET", Path |-> <<"", "session", ":id", "scan">>,
       Handler |-> "ScanPackageHandler"],
      [Method |-> "POST", Path |-> <<"", "session", ":id", "validate">>,
       Handler |-> "ValidatePackageHandler"],
      [Method |-> "POST", Path |-> <<"", "session", ":id", "qc">>,
       Handler |-> "QualityCheckHandler"],
      [Method |-> "POST", Path |-> <<"", "session", ":id", "label">>,
       Handler |-> "LabelPackageHandler"],
      [Method |-> "POST", Path |-> <<"", "session", ":id", "commit">>,
       Handler |-> "CommitSessionHandler"],
      [Method |-> "GET", Path |-> <<"", "info">>, Handler |-> "InfoHandler"] }

\* matchPath: a segment of the pattern that starts with ":" matches anything
matchPath(pattern, path) ==
    /\ Len(pattern) = Len(path)
    /\ \A i \in 1..Len(pattern) :
          HasColonPrefix(pattern[i]) \/ pattern[i] = path[i]

\* GetHandlerForPath: the handlers the lookup can return (none: not found).
\* The exact key is tried first; the patterns are then tried in the iteration
\* order of a Go map, so any matching pattern can be the one returned.
GetHandlerForPath(method, path) ==
    LET exact == {r \in DefaultServices : r.Method = method /\ r.Path = path}
        match == {r \in DefaultServices : r.Method = method /\ matchPath(r.Path, path)}
    IN  IF exact # {} THEN {r.Handler : r \in exact} ELSE {r.Handler : r \in match}

\* l1Client.GetShardByClientGroup on shard s: the shard its registry copy
\* holds for the client group, NoShard when it holds none
GetShardByClientGroup(s, clientGroup) ==
    IF clientGroup \in DOMAIN registry[s] THEN registry[s][clientGroup] ELSE NoShard

\* CheckShardAndRedirect on shard s: (shouldHandle, redirectURL)
CheckShardAndRedirect(s, clientGroup) ==
    IF clientGroup = shardGroup[s]
    THEN [shouldHandle |-> TRUE, redirectURL |-> NoShard]
    ELSE IF GetShardByClientGroup(s, clientGroup) = NoShard
         THEN [shouldHandle |-> TRUE, redirectURL |-> NoShard]
         ELSE [shouldHandle |-> FALSE,
               redirectURL |-> GetShardByClientGroup(s, clientGroup)]

\* GenerateResponse, first step: the shard the Request is forwarded to,
\* NoShard when it is handled by shard s itself
ForwardTarget(s, req) ==
    IF req.Headers # NoHeader /\ ~CheckShardAndRedirect(s, req.Headers).shouldHandle
    THEN CheckShardAndRedirect(s, req.Headers).redirectURL
    ELSE NoShard

\* the Response of handler h run on shard s for the Request
HandlerResponse(s, h, req) ==
    CASE h = "InfoHandler" ->
           [status |-> 200,
            body |-> [NoBody EXCEPT !.message = "info", !.shard_id = s,
                                    !.client_group = shardGroup[s]]]
      [] h = "CreateSessionHandler" ->
           IF req.Body # StartBody
           THEN [status |-> 400, body |-> [NoBody EXCEPT !.message = "Invalid request body"]]
           ELSE [status |-> 201,
                 body |-> [NoBody EXCEPT !.message = "Session created successfully",
                                         !.session_id = RouterSessionId,
                                         !.shard_id = s]]
      [] h = "CommitSessionHandler" ->
           IF req.Path[3] = RouterSessionId /\ store[s].present
           THEN [status |-> 400,
                 body |-> [NoBody EXCEPT
                             !.message = "Session must be completed before committing"]]
           ELSE [status |-> 404, body |-> [NoBody EXCEPT !.message = "session not found"]]

\* the rows of shard s after handler h has served the Request
HandlerStore(s, h, req) ==
    IF h = "CreateSessionHandler" /\ req.Body = StartBody
    THEN [store EXCEPT ![s] = RouterSession]
    ELSE store

\* GenerateResponse when no handler is found
NotFoundResponse ==
    [status |-> 404, body |-> [NoBody EXCEPT !.message = "Service not found"]]

\* ForwardToCorrectShard that answers 200 whatever the owning shard answered
ForwardToCorrectShardOK(httpResp) ==
    [status |-> 200, body |-> httpResp.body]

\* ForwardToCorrectShard: the Response built from the owning shard's answer
ForwardToCorrectShard(httpResp) ==
    [status |-> httpResp.status, body |-> httpResp.body]

\* the Response after n forwarding shards have passed it on
RECURSIVE Relayed(_, _)
Relayed(resp, n) ==
    IF n = 0 THEN resp ELSE ForwardToCorrectShard(Relayed(resp, n - 1))

\* jsonError: the answer a web server handler writes by itself
jsonError(message, statusCode) ==
    [status |-> statusCode, body |-> [NoBody EXCEPT !.message = message]]

\* handleSession that copies the X-Client-Group header into the Request
handleSessionRequestWithHeaders(m, p, b, h) ==
    [Method |-> m, Path |-> p, Body |-> b, Headers |-> h]

\* handleSession: the Request built from the HTTP request (no Headers)
handleSessionRequest(m, p, b, h) ==
    [Method |-> m, Path |-> p, Body |-> b, Headers |-> NoHeader]

\* handleInfo: the Request built from the HTTP request (no Body, no Headers)
handleInfoRequest(m, p, b, h) ==
    [Method |-> m, Path |-> p, Body |-> "", Headers |-> NoHeader]

\* longest chain of forwards followed for one request
MaxHops == 2

\* a request as it enters shard s
NewCall(via, s, m, p, b, h) ==
    [IdleCall EXCEPT !.via = via, !.entry = s, !.Method = m, !.Path = p,
                     !.Body = b, !.Header = h]

\* the call once shard s has produced resp for it: every forwarding shard on
\* the way back passes status and body on
Answered(c, s, resp) ==
    [c EXCEPT !.pc = "done", !.handledBy = s,
              !.status = Relayed(resp, c.hops).status,
              !.body = Relayed(resp, c.hops).body]

\* Request.GenerateResponse on shard s for call c
GenerateResponseAt(s, req, c) ==
    IF ForwardTarget(s, req) # NoShard
    THEN /\ c.hops < MaxHops
         /\ rcall' = [c EXCEPT !.pc = "forwarded", !.at = ForwardTarget(s, req),
                               !.hops = c.hops + 1]
         /\ UNCHANGED store
    ELSE IF GetHandlerForPath(req.Method, req.Path) = {}
         THEN /\ rcall' = Answered(c, s, NotFoundResponse)
              /\ UNCHANGED store
         ELSE \E h \in GetHandlerForPath(req.Method, req.Path) :
                 /\ h \in {"InfoHandler", "CreateSessionHandler", "CommitSessionHandler"}
                 /\ ~(h = "CreateSessionHandler" /\ req.Body = StartBody /\ store[s].present)
                 /\ rcall' = [Answered(c, s, HandlerResponse(s, h, req))
                                EXCEPT !.handler = h]
                 /\ store' = HandlerStore(s, h, req)

\* the web server of shard s serves an HTTP request: the mux gives /info to
\* handleInfo and /session/... to handleSession
ServeHTTP(s, m, p, b, h, c) ==
    IF p = PathInfo
    THEN IF m # "GET"
         THEN /\ rcall' = Answered(c, s, jsonError("Method not allowed", 405))
              /\ UNCHANGED store
         ELSE GenerateResponseAt(s, handleInfoRequest(m, p, b, h), c)
    ELSE GenerateResponseAt(s, handleSessionRequest(m, p, b, h), c)

\* a client sends an HTTP request under /session/ to shard s
handleSession(s, m, p, b, h) ==
    /\ rcall.pc = "idle"
    /\ p \in CleanPaths \ {PathInfo}
    /\ ServeHTTP(s, m, p, b, h, NewCall("http", s, m, p, b, h))
    /\ UNCHANGED <<shardGroup, registry>>
    /\ UNCHANGED <<varsL1, varsL2>>
    /\ UNCHANGED varsCalls

\* a client sends an HTTP request for /info to shard s
handleInfo(s, m, h) ==
    /\ rcall.pc = "idle"
    /\ ServeHTTP(s, m, PathInfo, "", h, NewCall("http", s, m, PathInfo, "", h))
    /\ UNCHANGED <<shardGroup, registry>>
    /\ UNCHANGED <<varsL1, varsL2>>
    /\ UNCHANGED varsCalls

\* GenerateResponse is called on shard s with a Request that carries Headers
GenerateResponse(s, m, p, b, h) ==
    /\ rcall.pc = "idle"
    /\ p \in CleanPaths \/ ForwardTarget(s, [Headers |-> h]) = NoShard
    /\ GenerateResponseAt(s, [Method |-> m, Path |-> p, Body |-> b, Headers |-> h],
                          NewCall("call", s, m, p, b, h))
    /\ UNCHANGED <<shardGroup, registry>>
    /\ UNCHANGED <<varsL1, varsL2>>
    /\ UNCHANGED varsCalls

\* the forwarded HTTP request, with the copied headers, reaches the web
\* server of the shard it was sent to
ForwardArrives ==
    /\ rcall.pc = "forwarded"
    /\ ServeHTTP(rcall.at, rcall.Method, rcall.Path, rcall.Body, rcall.Header, rcall)
    /\ UNCHANGED <<shardGroup, registry>>
    /\ UNCHANGED <<varsL1, varsL2>>
    /\ UNCHANGED varsCalls

\* client.Do fails (network error, or no answer within 30 s): the forwarding
\* shard's GenerateResponse returns (nil, err); a shard that was itself serving
\* an HTTP request answers it with jsonError 500, which the shards before it
\* pass on
ForwardFails ==
    /\ rcall.pc = "forwarded"
    /\ LET c    == [rcall EXCEPT !.pc = "done", !.failed = TRUE]
           resp == Relayed(jsonError("Internal server error", 500), rcall.hops - 1)
       IN  IF rcall.hops = 1 /\ rcall.via = "call"
           THEN rcall' = [c EXCEPT !.err = TRUE]
           ELSE rcall' = [c EXCEPT !.status = resp.status, !.body = resp.body]
    /\ UNCHANGED <<shardGroup, registry, store>>
    /\ UNCHANGED <<varsL1, varsL2>>
    /\ UNCHANGED varsCalls

RouterHeaders == RouterGroups \cup {NoHeader}

NextRouter ==
    \/ \E s \in ShardTable, m \in RouterMethods, p \in RouterPaths,
          b \in RouterBodies, h \in RouterHeaders : handleSession(s, m, p, b, h)
    \/ \E s \in ShardTable, m \in RouterMethods, h \in RouterHeaders : handleInfo(s, m, h)
    \/ \E s \in ShardTable, m \in RouterMethods, p \in RouterPaths,
          b \in RouterBodies, h \in RouterHeaders : GenerateResponse(s, m, p, b, h)
    \/ ForwardArrives
    \/ ForwardFails

SpecRouter == InitRouter /\ [][NextRouter]_vars

(***************************************************************************)
(* Route lookup of both layers (specification SpecRoutes).                 *)
(***************************************************************************)

\* an L1 registry whose shard query route takes any word after /l1/sessions
L1DefaultServicesLoose ==
    { [Method |-> "POST", Path |-> <<"", "l1", "commit">>, Exact |-> TRUE,
       Handler |-> "ReceiveShardCommitHandler"],
      [Method |-> "GET", Path |-> <<"", "l1", "sessions", "group", ":group">>,
       Exact |-> FALSE, Handler |-> "GetSessionsByGroupHandler"],
      [Method |-> "GET", Path |-> <<"", "l1", "sessions", ":shard", ":shard">>,
       Exact |-> FALSE, Handler |-> "GetSessionsByShardHandler"],
      [Method |-> "GET", Path |-> <<"", "l1", "transaction", ":hash">>,
       Exact |-> FALSE, Handler |-> "GetTransactionHandler"],
      [Method |-> "GET", Path |-> <<"", "l1", "status">>, Exact |-> TRUE,
       Handler |-> "StatusHandler"],
      [Method |-> "GET", Path |-> <<"", "l1", "shards">>, Exact |-> TRUE,
       Handler |-> "GetShardsHandler"] }

\* RegisterDefaultServices of the L1: method, pattern, isExactPath and
\* handler of every route
L1DefaultServices ==
    { [Method |-> "POST", Path |-> <<"", "l1", "commit">>, Exact |-> TRUE,
       Handler |-> "ReceiveShardCommitHandler"],
      [Method |-> "GET", Path |-> <<"", "l1", "sessions", "group", ":group">>,
       Exact |-> FALSE, Handler |-> "GetSessionsByGroupHandler"],
      [Method |-> "GET", Path |-> <<"", "l1", "sessions", "shard", ":shard">>,
       Exact |-> FALSE, Handler |-> "GetSessionsByShardHandler"],
      [Method |-> "GET", Path |-> <<"", "l1", "transaction", ":hash">>,
       Exact |-> FALSE, Handler |-> "GetTransactionHandler"],
      [Method |-> "GET", Path |-> <<"", "l1", "status">>, Exact |-> TRUE,
       Handler |-> "StatusHandler"],
      [Method |-> "GET", Path |-> <<"", "l1", "shards">>, Exact |-> TRUE,
       Handler |-> "GetShardsHandler"] }

\* strings.ToUpper on the methods of the model
ToUpper(method) ==
    CASE method = "get" -> "GET"
      [] method = "post" -> "POST"
      [] OTHER -> method

\* GetHandlerForPath of the L1: the handlers the lookup can return.  The key
\* is tried first and counts when the route is registered as exact; the
\* routes that are not exact are then tried in the iteration order of a Go map.
L1GetHandlerForPath(method, path) ==
    LET exact == {r \in L1DefaultServices :
                     r.Method = ToUpper(method) /\ r.Path = path /\ r.Exact}
        match == {r \in L1DefaultServices :
                     r.Method = ToUpper(method) /\ ~r.Exact /\ matchPath(r.Path, path)}
    IN  IF exact # {} THEN {r.Handler : r \in exact} ELSE {r.Handler : r \in match}

\* the two registries
Layers == {"l1", "l2"}

\* the handlers the lookup of a layer can return
HandlersFor(layer, method, path) ==
    IF layer = "l1" THEN L1GetHandlerForPath(method, path)
    ELSE GetHandlerForPath(method, path)

\* the words a request path carries where a route has a parameter
LookupWords == {"SES-1", "", "start", "scan", "commit", "group", "shard", "status"}

\* the pattern with every parameter replaced by the word
Instantiate(pattern, word) ==
    [i \in 1..Len(pattern) |-> IF HasColonPrefix(pattern[i]) THEN word ELSE pattern[i]]

\* the paths looked up: every registered pattern as it is written, and with
\* each of the words in the place of its parameters
LookupPaths ==
    {r.Path : r \in DefaultServices \cup L1DefaultServices} \cup
    {Instantiate(r.Path, w) : r \in DefaultServices \cup L1DefaultServices,
                              w \in LookupWords}

LookupMethods == {"GET", "POST", "get"}

\* one call of GetHandlerForPath on the registry of a layer
Lookup(layer, method, path) ==
    /\ rcall.pc \in {"idle", "done"}
    /\ \E h \in (IF HandlersFor(layer, method, path) = {} THEN {""}
                  ELSE HandlersFor(layer, method, path)) :
          rcall' = [IdleCall EXCEPT !.pc = "done", !.at = layer, !.Method = method,
                                    !.Path = path, !.handler = h]
    /\ UNCHANGED <<shardGroup, registry, store>>
    /\ UNCHANGED varsL1
    /\ UNCHANGED varsL2
    /\ UNCHANGED varsCalls

NextRoutes ==
    \E layer \in Layers, method \in LookupMethods, path \in LookupPaths :
        Lookup(layer, method, path)

SpecRoutes == Init /\ [][NextRoutes]_vars

\* GetSessionsByShard on replica n: the session ids returned
GetSessionsByShard(n, shardID) ==
    {s \in SessionIds : idx[n][s].present /\ idx[n][s].shard_id = shardID}

\* GetSessionsByClientGroup on replica n: the session ids returned
GetSessionsByClientGroup(n, clientGroup) ==
    {s \in SessionIds : idx[n][s].present /\ idx[n][s].client_group = clientGroup}

\* the tx:<tx_id> keys the committed ledger of replica n holds for a session
TxKeysOf(n, sessionID) ==
    {k \in DOMAIN ledger[n] :
        \E sh \in ShardIds : k = TxKey(generateTxID(sessionID, sh))}

\* positions of the decided chain whose transaction carries the session id
FinalizedFor(sessionID) ==
    {<<h, i>> \in (1..MaxHeight) \X (1..MaxBlockTxs) :
        /\ h <= Len(chain)
        /\ i <= Len(chain[h])
        /\ Unmarshal(chain[h][i]).v.session_id = sessionID}

(***************************************************************************)
(* Claims about the L1 commit pipeline (specification Spec).               *)
(***************************************************************************)

\* C1: two POST /l1/commit requests for the same session_id, served by one
\* replica with a registered shard and all fields present and with consensus
\* and database succeeding, are answered one 202 and one 409, and the ledger
\* then holds exactly one tx:<tx_id> key for the session.
C1_OneAcceptedOneConflict ==
    \A r1, r2 \in ReqIds :
        LET c1 == Unmarshal(reqs[r1].body)
            c2 == Unmarshal(reqs[r2].body)
        IN  ( /\ r1 < r2
              /\ reqs[r1].pc = "done" /\ reqs[r2].pc = "done"
              /\ reqs[r1].node = reqs[r2].node
              /\ c1.ok /\ c2.ok
              /\ c1.v.session_id = c2.v.session_id
              /\ c1.v.session_id # "" /\ c1.v.client_group # "" /\ c2.v.client_group # ""
              /\ c1.v.shard_id \in ShardTable /\ c2.v.shard_id \in ShardTable
              /\ reqs[r1].code \notin {"CONSENSUS_ERROR", "DATABASE_ERROR"}
              /\ reqs[r2].code \notin {"CONSENSUS_ERROR", "DATABASE_ERROR"}
              /\ \A q \in ReqIds \ {r1, r2} :
                     Unmarshal(reqs[q].body).v.session_id # c1.v.session_id )
            => /\ {reqs[r1].http, reqs[r2].http} = {202, 409}
               /\ Cardinality(TxKeysOf(reqs[r1].node, c1.v.session_id)) = 1

\* C2: for any session_id, at no time are two consensus submissions for that
\* session_id in flight, counting the submissions of every replica.
C2_OneSubmissionInFlight ==
    \A r1, r2 \in ReqIds :
        ( /\ r1 # r2
          /\ reqs[r1].pc = "waiting"
          /\ reqs[r2].pc = "waiting" )
        => CommitReq(r1).session_id # CommitReq(r2).session_id

\* C3: a session_id is finalized in at most one ledger transaction, whatever
\* replicas the requests went through and whatever attempts failed before.
C3_FinalizedAtMostOnce ==
    \A s \in SessionIds \ {""} : Cardinality(FinalizedFor(s)) <= 1

\* C4: once an admitted request has returned, and no other request was admitted
\* for its session on that replica, either the index row carrying a tx_hash,
\* the Transaction row and the ledger entry of the session all exist or none
\* of them exists; and a request that finds the index row is answered 409.
C4_AtomicCompletion ==
    \A r \in ReqIds :
        LET n == reqs[r].node
            c == CommitReq(r)
            hasIndex == idx[n][c.session_id].present /\ idx[n][c.session_id].tx_hash # NoHash
            hasTransaction == txrows[n][c.session_id].present
            hasLedger == ShardKey(c.shard_id, c.session_id) \in DOMAIN ledger[n]
        IN  /\ ( /\ reqs[r].pc = "done"
                 /\ reqs[r].code \in {"", "CONSENSUS_ERROR", "DATABASE_ERROR"}
                 /\ \A q \in ReqIds \ {r} :
                        \/ reqs[q].pc \in {"idle", "lost"}
                        \/ reqs[q].node # n
                        \/ reqs[q].code \in {"BAD_REQUEST", "SHARD_NOT_FOUND", "SESSION_EXISTS"}
                        \/ CommitReq(q).session_id # c.session_id )
               => \/ hasIndex /\ hasTransaction /\ hasLedger
                  \/ ~hasIndex /\ ~hasTransaction /\ ~hasLedger
            /\ (reqs[r].pc = "done" /\ reqs[r].code = "SESSION_EXISTS") => reqs[r].http = 409

C6_AcceptedIsRecorded ==
    \A r \in ReqIds :
        (reqs[r].pc = "done" /\ reqs[r].http = 202)
        => LET n == reqs[r].node
               c == CommitReq(r)
           IN  /\ reqs[r].tx_hash = TxHashOf(ConsensusTx(r))
               /\ reqs[r].block_height = IncludedAt(ConsensusTx(r))
               /\ reqs[r].block_height >= 1
               /\ idx[n][c.session_id].present
               /\ idx[n][c.session_id].tx_hash = reqs[r].tx_hash
               /\ txrows[n][c.session_id].present
               /\ txrows[n][c.session_id].status = "confirmed"
               /\ txrows[n][c.session_id].tx_hash = reqs[r].tx_hash
               /\ txrows[n][c.session_id].block_height = reqs[r].block_height
               /\ c.session_id \in GetSessionsByShard(n, c.shard_id)
               /\ c.session_id \in GetSessionsByClientGroup(n, c.client_group)

\* a request has been answered 202 for a block above the first one
C6_Witness ==
    \E r \in ReqIds :
        /\ reqs[r].pc = "done"
        /\ reqs[r].http = 202
        /\ reqs[r].block_height = 2

\* C7: the step that answers a request deletes the pre-inserted index row if
\* and only if the consensus submission of the request failed, and the failing
\* request is answered 500.
C7_DeletedIffConsensusFailed ==
    [][ \A r \in ReqIds :
          (reqs[r].pc \in {"admitted", "waiting"} /\ reqs'[r].pc = "done")
          => LET n == reqs[r].node
                 s == CommitReq(r).session_id
             IN  /\ (idx[n][s].present /\ ~idx'[n][s].present)
                    <=> reqs'[r].code = "CONSENSUS_ERROR"
                 /\ reqs'[r].code = "CONSENSUS_ERROR" => reqs'[r].http = 500 ]_vars

\* C8: a request with an empty shard_id, session_id or client_group, or with an
\* unregistered shard_id, is answered 400 and writes nothing.
C8_InvalidIsBadRequest ==
    [][ \A r \in ReqIds :
          LET u == Unmarshal(reqs'[r].body)
          IN  ( /\ reqs[r].pc = "idle"
                /\ reqs'[r].pc # "idle"
                /\ u.ok
                /\ \/ u.v.shard_id = ""
                   \/ u.v.session_id = ""
                   \/ u.v.client_group = ""
                   \/ u.v.shard_id \notin ShardTable )
              => /\ reqs'[r].pc = "done"
                 /\ reqs'[r].http = 400
                 /\ UNCHANGED <<idx, txrows, mempool, chain, ledger>> ]_vars

\* C9: a request whose consensus submission timed out is answered 504, and as
\* long as no other request is admitted for its session, the replica has no
\* index row, no Transaction row and no ledger entry for the session.
C9_TimeoutLeavesNothing ==
    \A r \in ReqIds :
        (reqs[r].pc = "done" /\ reqs[r].cause = "timeout")
        => LET n == reqs[r].node
               c == CommitReq(r)
           IN  /\ reqs[r].http = 504
               /\ (\A q \in ReqIds \ {r} :
                       \/ reqs[q].pc \in {"idle", "lost"}
                       \/ reqs[q].code \in {"BAD_REQUEST", "SHARD_NOT_FOUND", "SESSION_EXISTS"}
                       \/ CommitReq(q).session_id # c.session_id)
                  => /\ ~idx[n][c.session_id].present
                     /\ ~txrows[n][c.session_id].present
                     /\ ShardKey(c.shard_id, c.session_id) \notin DOMAIN ledger[n]

(***************************************************************************)
(* Claims about an L2 shard (specification SpecL2).                        *)
(***************************************************************************)

\* C10: a session of the shard with is_committed = true has status committed,
\* a non-empty l1_tx_hash and an l1_block_height of at least 1.
C10_CommittedSessionCarriesReceipt ==
    \A s \in L2SessionIds :
        (sessions[s].present /\ sessions[s].is_committed)
        => /\ sessions[s].status = "committed"
           /\ sessions[s].l1_tx_hash # NoHash
           /\ sessions[s].l1_block_height >= 1

\* a session has been marked committed after a second commit call
C10_Witness ==
    \E s \in L2SessionIds :
        /\ sessions[s].present
        /\ sessions[s].is_committed
        /\ \E r \in ReqIds : r > 1 /\ calls[r].pc = "done" /\ calls[r].sid = s /\ calls[r].status = 200

\* rows of the shard's database
rowsL2 == <<sessions, packages, qcRecords, labels>>

\* C11: a session's status changes only active -> completed and
\* completed -> committed; it never moves backward and never skips completed.
C11_StatusMonotone ==
    [][\A s \in L2SessionIds :
          (sessions[s].present /\ sessions'[s] # sessions[s])
          => /\ sessions'[s].present
             /\ \/ sessions'[s].status = sessions[s].status
                \/ sessions[s].status = "active" /\ sessions'[s].status = "completed"
                \/ sessions[s].status = "completed" /\ sessions'[s].status = "committed"]_vars

\* a committed session that a later label call names
C11_Witness ==
    \E s \in L2SessionIds :
        /\ sessions[s].present
        /\ sessions[s].status = "committed"
        /\ LabelPackageStatus(s, "CUR-001") = 500

\* C12: an L2 operation that answers with an error leaves the session, package,
\* QC-record and label rows as they were: every step of an operation that
\* changes a row is a step of a successful call, and a commit that ends in an
\* error changes no row.
C12_ErrorLeavesRows ==
    [][rowsL2' # rowsL2
       => /\ \A s \in ScanSessionIds, p \in ScanPackageIds :
                 ScanPackageHandler(s, p) => ScanPackageStatus(s, p) = 200
          /\ \A s \in ScanSessionIds, g \in Signatures, p \in ScanPackageIds :
                 ValidatePackageHandler(s, g, p) => ValidatePackageStatus(s, g, p) = 200
          /\ \A s \in ScanSessionIds, passed \in BOOLEAN :
                 QualityCheckHandler(s, passed) => QualityCheckStatus(s) = 200
          /\ \A s \in L2SessionIds, c \in LabelCourierIds :
                 LabelPackageHandler(s, c) => LabelPackageStatus(s, c) = 200
          /\ \A s \in L2SessionIds : ~CommitSessionHandler(s)
          /\ \A r \in ReqIds :
                 (calls[r].pc = "calling" /\ calls'[r].pc = "done")
                 => calls'[r].status = 200]_vars

\* a commit has ended in an error and a second QC call would be refused
C12_Witness ==
    /\ \E r \in ReqIds : calls[r].pc = "done" /\ calls[r].status = 502
    /\ \E s \in ScanSessionIds : QualityCheckStatus(s) = 500

\* C13: a session reaches status completed (and is committed) only when its
\* linked package passed quality check before the label call.
C13_CompletedOnlyAfterPassedQC ==
    \A s \in L2SessionIds :
        (sessions[s].present /\ sessions[s].status \in {"completed", "committed"})
        => /\ qcRecords[s].present
           /\ qcRecords[s].passed
           /\ LinkedPackages(s) # {}

\* C14: scan succeeds only for an existing, active session and an existing
\* package; a scan naming a session that does not exist answers 404 and leaves
\* the package's status and session link unchanged.
C14_ScanNeedsActiveSession ==
    [][\A s \in ScanSessionIds, p \in ScanPackageIds :
          ScanPackageHandler(s, p)
          => /\ ScanPackageStatus(s, p) = 200
                => (sessions[s].present /\ sessions[s].status = "active" /\ p \in PackageIds)
             /\ ~sessions[s].present
                => (ScanPackageStatus(s, p) = 404 /\ packages' = packages)]_vars

\* C15: commit on a session with is_committed = true answers 409, sends no
\* request to the L1 and changes neither the session nor any L1 state.
C15_RecommitIsConflict ==
    /\ [](\A s \in L2SessionIds :
             (sessions[s].present /\ sessions[s].is_committed)
             => CommitSessionStatus(s) = 409)
    /\ [][\A s \in L2SessionIds :
             (sessions[s].present /\ sessions[s].is_committed)
             => ~CommitSessionHandler(s)]_vars

\* a committed session while a call slot is still free for a further commit
C15_Witness ==
    \E s \in L2SessionIds, r \in ReqIds :
        /\ sessions[s].present
        /\ sessions[s].is_committed
        /\ NextCall(r)

\* C16: commit on a session that is not committed and whose status is not
\* completed answers 400, sends no request to the L1 and leaves the session
\* unchanged.
C16_CommitNeedsCompleted ==
    /\ [](\A s \in L2SessionIds :
             (sessions[s].present /\ ~sessions[s].is_committed
                /\ sessions[s].status # "completed")
             => CommitSessionStatus(s) = 400)
    /\ [][\A s \in L2SessionIds :
             (sessions[s].present /\ ~sessions[s].is_committed
                /\ sessions[s].status # "completed")
             => ~CommitSessionHandler(s)]_vars

\* an active session with a scanned package while a call slot is free
C16_Witness ==
    \E s \in L2SessionIds, r \in ReqIds :
        /\ sessions[s].present
        /\ sessions[s].status = "active"
        /\ sessions[s].package_id # ""
        /\ NextCall(r)

\* calls of the shard for a session that ended with 200
Succeeded(sessionID) ==
    {r \in ReqIds : calls[r].pc = "done" /\ calls[r].sid = sessionID /\ calls[r].status = 200}

\* C17: when the L1 call of a commit fails (unreachable, client timeout, or an
\* L1 status other than 200 and 202) the commit answers 502 and the session
\* stays completed, not committed and without l1_tx_hash.
C17_FailedCallLeavesCompleted ==
    /\ [](\A r \in ReqIds :
             (calls[r].pc = "done" /\ (reqs[r].pc # "done" \/ reqs[r].http \notin {200, 202}))
             => /\ calls[r].status = 502
                /\ Succeeded(calls[r].sid) = {}
                   => /\ sessions[calls[r].sid].status = "completed"
                      /\ ~sessions[calls[r].sid].is_committed
                      /\ sessions[calls[r].sid].l1_tx_hash = NoHash)
    /\ [][\A r \in ReqIds :
             (calls[r].pc = "calling" /\ calls'[r].pc = "done" /\ calls'[r].status = 502)
             => sessions' = sessions]_vars

\* a commit answered 502 because the L1 answered an error status
C17_Witness ==
    \E r \in ReqIds :
        /\ calls[r].pc = "done"
        /\ calls[r].status = 502
        /\ reqs[r].pc = "done"
        /\ reqs[r].http = 422
        /\ sessions[calls[r].sid].status = "completed"

\* the L1 answered call r and its consensus round and database did not fail
AnsweredLive(r) ==
    /\ reqs[r].pc = "done"
    /\ reqs[r].code \notin {"CONSENSUS_ERROR", "DATABASE_ERROR"}

\* C18: after a commit of a completed session answered 502, whatever the
\* cause, a later commit of the same session that the L1 answers with its
\* consensus live succeeds and marks the session committed.
C18_RetryAfterFailureSucceeds ==
    [][\A r \in ReqIds :
          (/\ calls[r].pc = "calling"
           /\ calls[r].retry
           /\ AnsweredLive(r)
           /\ calls'[r].pc = "done")
          => /\ calls'[r].status = 200
             /\ sessions'[calls[r].sid].is_committed]_vars

\* call r is the only commit the shard has issued for its session
OnlyCall(r) == \A q \in ReqIds \ {r} : calls[q].sid # calls[r].sid

\* C19: with the L1 reachable and consensus live, the commit of a session
\* driven through create, scan, validate, qc(passed) and label answers 200, the
\* session is committed with a non-empty l1_tx_hash and l1_block_height >= 1,
\* and the L1 lists it under its shard and its client group.
C19_WorkflowCommits ==
    /\ [](\A r \in ReqIds :
             (calls[r].pc # "none" /\ OnlyCall(r) /\ AnsweredLive(r))
             => /\ reqs[r].http = 202
                /\ reqs[r].tx_hash # NoHash
                /\ reqs[r].block_height >= 1
                /\ calls[r].sid \in GetSessionsByShard(L1Endpoint, ShardID)
                /\ calls[r].sid \in GetSessionsByClientGroup(L1Endpoint, ClientGroup))
    /\ [](\A r \in ReqIds :
             (calls[r].pc = "done" /\ calls[r].status = 200)
             => /\ sessions[calls[r].sid].status = "committed"
                /\ sessions[calls[r].sid].l1_tx_hash = reqs[r].tx_hash
                /\ sessions[calls[r].sid].l1_block_height = reqs[r].block_height)
    /\ [][\A r \in ReqIds :
             (calls[r].pc = "calling" /\ OnlyCall(r) /\ AnsweredLive(r)
                /\ calls'[r].pc = "done")
             => calls'[r].status = 200]_vars

\* the full workflow of SES-1 ended with a commit answered 200
C19_Witness ==
    \E r \in ReqIds :
        /\ calls[r].pc = "done"
        /\ calls[r].sid = "SES-1"
        /\ calls[r].status = 200
        /\ OnlyCall(r)
        /\ qcRecords["SES-1"].present
        /\ qcRecords["SES-1"].passed
        /\ packages["PKG-001"].status = "labeled"
        /\ packages["PKG-001"].is_trusted
        /\ sessions["SES-1"].package_id = "PKG-001"
        /\ "SES-1" \in GetSessionsByShard(L1Endpoint, ShardID)

\* transactions i and j run the same transition on the same session
SameTransition(i, j) ==
    /\ txns[i].op = txns[j].op
    /\ txns[i].sid = txns[j].sid

\* C20: of two transitions of the same kind that run at the same time on one
\* session at most one succeeds: once one of them has committed, the other
\* one fails.
C20_AtMostOneSucceeds ==
    [][\A i \in TxnIds, j \in TxnIds :
          (/\ i # j
           /\ txns[i].pc = "open"
           /\ txns[j].pc = "open"
           /\ SameTransition(i, j)
           /\ txns'[i].pc = "done"
           /\ txns'[i].status = 200)
          => WriteStatus(j)' # 200]_vars

(***************************************************************************)
(* Claims on the L2 request router (SpecRouter).                           *)
(***************************************************************************)
\* the request has left the shard it entered: forwarded, or refused on the way
LeftEntry == rcall.hops >= 1 \/ rcall.failed

\* C21: a request that entered a shard over HTTP is handled by that shard
\* when it has no X-Client-Group header, when the header is the shard's own
\* group or when the shard's registry copy does not know the group, and it is
\* forwarded to the registered owner exactly when the header names another
\* group that the registry copy knows.
C21_RoutedByHeader ==
    (rcall.pc \in {"forwarded", "done"} /\ rcall.via = "http")
    => IF ForwardTarget(rcall.entry, [Headers |-> rcall.Header]) = NoShard
       THEN ~LeftEntry /\ rcall.handledBy = rcall.entry
       ELSE LeftEntry

\* POST /session/start with X-Client-Group: group-b, sent over HTTP to shard-a
\* (group-a) whose registry copy gives group-b to shard-b
CrossShardStart ==
    /\ rcall.via = "http"
    /\ rcall.entry = "shard-a"
    /\ rcall.Method = "POST"
    /\ rcall.Path = PathStart
    /\ rcall.Body = StartBody
    /\ rcall.Header = "group-b"
    /\ registry["shard-a"]["group-b"] = "shard-b"

\* C22: the cross-shard session start is answered with shard-b's response and
\* the session is created on shard-b, nothing on shard-a.
C22_StartedOnOwner ==
    (CrossShardStart /\ rcall.pc = "done" /\ rcall.status = 201)
    => /\ rcall.body.shard_id = "shard-b"
       /\ rcall.handledBy = "shard-b"

\* the answers shard s gives when the HTTP request reaches it directly
DirectResponses(s, m, p, b, h) ==
    LET req == IF p = PathInfo THEN handleInfoRequest(m, p, b, h)
                               ELSE handleSessionRequest(m, p, b, h)
    IN  IF p = PathInfo /\ m # "GET"
        THEN {jsonError("Method not allowed", 405)}
        ELSE IF ForwardTarget(s, req) # NoShard
             THEN {}
             ELSE IF GetHandlerForPath(req.Method, req.Path) = {}
                  THEN {NotFoundResponse}
                  ELSE {HandlerResponse(s, h2, req) :
                           h2 \in GetHandlerForPath(req.Method, req.Path)}

C24_AtMostOneHop ==
    /\ [](rcall.hops <= 1)
    /\ [][(rcall.pc = "forwarded" /\ rcall'.pc # "forwarded" /\ ~rcall'.failed)
          => (rcall'.pc = "done" /\ rcall'.handledBy = rcall.at)]_vars

\* a request was forwarded to a shard whose own registry copy gives the
\* group of the header to yet another owner, and that shard handled it
C24_Witness ==
    /\ rcall.pc = "done"
    /\ rcall.hops = 1
    /\ rcall.handledBy = rcall.at
    /\ CheckShardAndRedirect(rcall.at, rcall.Header).shouldHandle = FALSE

\* C25: a forward that fails is answered with status 502.
C25_ForwardFailureIs502 ==
    (rcall.pc = "done" /\ rcall.failed) => (~rcall.err /\ rcall.status = 502)

\* route lookup as the claim C26 words it: a ":name" segment needs a
\* non-empty path segment
StrictMatch(pattern, path) ==
    /\ Len(pattern) = Len(path)
    /\ \A i \in 1..Len(pattern) :
          IF HasColonPrefix(pattern[i]) THEN path[i] # "" ELSE pattern[i] = path[i]

StrictLookup(method, path) ==
    LET exact == {r \in DefaultServices : r.Method = method /\ r.Path = path}
        match == {r \in DefaultServices : r.Method = method /\ StrictMatch(r.Path, path)}
    IN  IF exact # {} THEN {r.Handler : r \in exact} ELSE {r.Handler : r \in match}

\* C26: the handler that serves a request is the one registered under exactly
\* its path, else one of a pattern with as many segments, equal literal
\* segments and a non-empty segment for every ":name"; with no such route the
\* answer is the 404 "Service not found".
C26_RouteLookup ==
    (rcall.pc = "done" /\ rcall.handledBy # "" /\ rcall.status # 405)
    => IF StrictLookup(rcall.Method, rcall.Path) = {}
       THEN rcall.handler = "" /\ rcall.status = 404
                               /\ rcall.body = NotFoundResponse.body
       ELSE rcall.handler \in StrictLookup(rcall.Method, rcall.Path)

(***************************************************************************)
(* Claims on the ABCI application (SpecABCI, Spec).                        *)
(***************************************************************************)
\* the transaction is JSON of a commit request
ParsesAsJSON(tx) == Unmarshal(tx).ok

\* k holds v in the store kv
Holds(kv, k, v) == k \in DOMAIN kv /\ kv[k] = v

\* C27: CheckTx answers code 0 exactly for the transactions that parse as
\* JSON with non-empty shard_id, session_id and client_group, a non-zero code
\* for every other one, and a CheckTx call changes neither the ledger store
\* nor the open block transaction nor the relational index.
C27_CheckTxCode ==
    /\ [](checked # NoCheck
          => IF /\ ParsesAsJSON(checked.tx)
                /\ Unmarshal(checked.tx).v.shard_id # ""
                /\ Unmarshal(checked.tx).v.session_id # ""
                /\ Unmarshal(checked.tx).v.client_group # ""
             THEN checked.code = 0
             ELSE checked.code # 0 /\ checked.code # -1)
    /\ [][checked' # checked
          => UNCHANGED <<ledger, onGoingBlock, idx, txrows>>]_vars

\* a transaction with an empty client_group was refused by CheckTx on a
\* replica whose ledger holds a block
C27_Witness ==
    /\ checked.code = 1
    /\ ParsesAsJSON(checked.tx)
    /\ Unmarshal(checked.tx).v.shard_id # ""
    /\ Unmarshal(checked.tx).v.session_id # ""
    /\ Unmarshal(checked.tx).v.client_group = ""
    /\ ledger[AbciNode] # EmptyKV

\* malformed JSON, or JSON with an empty shard_id or session_id
BadProposalTx(tx) ==
    \/ ~ParsesAsJSON(tx)
    \/ Unmarshal(tx).v.shard_id = ""
    \/ Unmarshal(tx).v.session_id = ""

\* the ledger keys storeShardCommit writes for the transaction
LedgerKeysOf(tx) ==
    LET c == Unmarshal(tx).v
    IN  { TxKey(generateTxID(c.session_id, c.shard_id)),
          ShardKey(c.shard_id, c.session_id),
          StatusKey(generateTxID(c.session_id, c.shard_id)) }

\* C28: ProcessProposal rejects exactly the proposals that contain a
\* malformed transaction or one with an empty shard_id or session_id; with
\* only accepted proposals finalized, no block holds such a transaction and
\* neither the ledger nor the open block transaction has a key of one.
C28_ProposalChecked ==
    /\ proposal # NoProposal
        => (proposal.status = "REJECT"
              <=> \E i \in DOMAIN proposal.txs : BadProposalTx(proposal.txs[i]))
    /\ proposal # NoProposal => proposal.status \in {"REJECT", "ACCEPT"}
    /\ \A h \in DOMAIN chain : \A i \in DOMAIN chain[h] : ~BadProposalTx(chain[h][i])
    /\ \A tx \in AbciTxs :
          (ParsesAsJSON(tx) /\ BadProposalTx(tx))
          => /\ LedgerKeysOf(tx) \cap DOMAIN ledger[AbciNode] = {}
             /\ LedgerKeysOf(tx) \cap DOMAIN onGoingBlock[AbciNode].writes = {}

\* a proposal whose second transaction has an empty id was rejected after an
\* accepted block was committed
C28_Witness ==
    /\ proposal.status = "REJECT"
    /\ Len(proposal.txs) = 2
    /\ ~BadProposalTx(proposal.txs[1])
    /\ ParsesAsJSON(proposal.txs[2])
    /\ BadProposalTx(proposal.txs[2])
    /\ ledger[AbciNode] # EmptyKV

\* C29: once a replica has finalized and committed the block at height h,
\* its ledger holds, for every transaction of the block, tx:<tx_id> and
\* shard:<shard_id>:session:<session_id> with the transaction's bytes and
\* status:<tx_id> = accepted, last_block_height = h and last_block_app_hash =
\* SHA-256 of the result data in block order, and the results returned are in
\* the order of the block.
C29_BlockIsStored ==
    \A n \in Nodes :
       (height[n] >= 1 /\ ~onGoingBlock[n].open)
       => LET txs == chain[height[n]]
              res == responses[n].TxResults
              idOf(tx) == generateTxID(Unmarshal(tx).v.session_id,
                                       Unmarshal(tx).v.shard_id)
          IN  /\ Len(res) = Len(txs)
              /\ \A i \in DOMAIN txs :
                    /\ res[i].data = idOf(txs[i])
                    /\ Holds(ledger[n], TxKey(idOf(txs[i])), txs[i])
                    /\ Holds(ledger[n], ShardKey(Unmarshal(txs[i]).v.shard_id,
                                                 Unmarshal(txs[i]).v.session_id), txs[i])
                    /\ Holds(ledger[n], StatusKey(idOf(txs[i])), "accepted")
              /\ Holds(ledger[n], HeightKey, int64ToBytes(height[n]))
              /\ Holds(ledger[n], AppHashKey, Sha256(ConcatData(res)))
              /\ responses[n].AppHash = Sha256(ConcatData(res))

CommitReturns(n) == onGoingBlock[n].open /\ ~onGoingBlock'[n].open

\* C31: a Commit makes all writes of the block visible together, or none of
\* them; after a failed Commit the ledger's last_block_height and
\* last_block_app_hash, and what Info reports, are those of the block
\* before.
C31_CommitIsAtomic ==
    [][\A n \in Nodes :
          CommitReturns(n)
          => \/ ledger'[n] = Overlay(ledger[n], onGoingBlock[n].writes)
             \/ /\ ledger'[n] = ledger[n]
                /\ Info(n)' = Info(n)]_vars

\* a Commit failed on a replica that had committed a block before: the
\* ledger is still that of the first block
C31_Witness ==
    /\ height[AbciNode] = 2
    /\ ~onGoingBlock[AbciNode].open
    /\ Info(AbciNode).LastBlockHeight = 1
    /\ onGoingBlock[AbciNode].writes # EmptyKV
    /\ \E k \in DOMAIN onGoingBlock[AbciNode].writes : k \notin DOMAIN ledger[AbciNode]

\* heights whose encoding is checked
HeightSamples == {0, 1, 255, 256, 65535, 65536, 16777216, 2147483647}

HasRecord(op, sessionID) ==
    IF op = "qc" THEN qcRecords[sessionID].present ELSE labels[sessionID].present

\* C33: a session has at most one QC record and at most one label: a record
\* is only ever inserted for a session that has none, a qc or label request
\* that succeeds leaves the record of its session, and a repeated qc or label
\* request on a session that has the record fails and changes neither the
\* package status nor the records.
C33_OneRecordPerSession ==
    [][/\ \A s \in L2SessionIds :
             /\ qcRecords'[s] # qcRecords[s]
                   => ~qcRecords[s].present /\ qcRecords'[s].present
             /\ labels'[s] # labels[s]
                   => ~labels[s].present /\ labels'[s].present
       /\ \A i \in TxnIds :
             (/\ txns[i].pc = "open"
              /\ txns'[i].pc = "done"
              /\ txns[i].op \in {"qc", "label"})
             => IF HasRecord(txns[i].op, txns[i].sid)
                THEN /\ txns'[i].status # 200
                     /\ packages' = packages
                     /\ qcRecords' = qcRecords
                     /\ labels' = labels
                ELSE txns'[i].status = 200
                        => HasRecord(txns[i].op, txns[i].sid)']_vars

\* a qc request succeeded and the repeated one on the same session failed
C33_Witness ==
    \E i \in TxnIds, j \in TxnIds :
        /\ txns[i].pc = "done" /\ txns[i].op = "qc" /\ txns[i].status = 200
        /\ txns[j].pc = "done" /\ txns[j].op = "qc" /\ txns[j].status = 500
        /\ txns[i].sid = txns[j].sid
        /\ qcRecords[txns[i].sid].present

\* the repository of the shard alone, with requests on every session
NextLinks ==
    \/ \E o \in OperatorIds : CreateSessionHandler(o)
    \/ \E s \in L2SessionIds, p \in ScanPackageIds : ScanPackageHandler(s, p)
    \/ \E s \in L2SessionIds, g \in Signatures, p \in ScanPackageIds :
           ValidatePackageHandler(s, g, p)
    \/ \E s \in L2SessionIds, passed \in BOOLEAN : QualityCheckHandler(s, passed)
    \/ \E s \in L2SessionIds, c \in LabelCourierIds : LabelPackageHandler(s, c)

SpecLinks == Init /\ [][NextLinks]_vars

(***************************************************************************)
(* Links between sessions and packages                                     *)
(***************************************************************************)

\* the sessions that exist, name a package and are not committed
OpenLinks == {s \in L2SessionIds : /\ sessions[s].present
                                   /\ sessions[s].package_id # ""
                                   /\ ~sessions[s].is_committed}

\* C34: no two uncommitted sessions have the same package_id, and the
\* package_id of a session names a package whose session_id is that session.
C34_PackageLinkedOnce ==
    /\ \A s \in OpenLinks, t \in OpenLinks :
           s # t => sessions[s].package_id # sessions[t].package_id
    /\ \A s \in L2SessionIds :
           (sessions[s].present /\ sessions[s].package_id # "")
           => /\ sessions[s].package_id \in PackageIds
              /\ packages[sessions[s].package_id].session_id = s

(***************************************************************************)
(* The wait for the broadcast                                              *)
(***************************************************************************)

\* C35: a commit request whose broadcast has not completed in time stops
\* waiting and is answered with CONSENSUS_TIMEOUT.
C35_TimeoutIsReported ==
    \A r \in ReqIds :
        (reqs[r].pc = "done" /\ reqs[r].cause = "timeout")
        => reqs[r].code = "CONSENSUS_TIMEOUT"

(***************************************************************************)
(* Shutdown of a replica                                                   *)
(***************************************************************************)

\* the ledger store is closed only after the HTTP server is shut down and the
\* consensus node is stopped, and no step of FinalizeBlock or Commit is taken
\* on a closed store
ShutdownOrder ==
    /\ [](main.db = "closed" => main.pc = "exited")
    /\ [][(ledger' # ledger \/ onGoingBlock' # onGoingBlock \/ height' # height)
            => (main.db = "open" /\ NodeRunning)]_vars
    /\ [][main'.pc # main.pc
            => <<main.pc, main'.pc>> \in {<<"running", "shutdown">>,
                                          <<"shutdown", "httpDown">>,
                                          <<"httpDown", "nodeStopped">>,
                                          <<"nodeStopped", "exited">>}]_vars

\* C36: the ledger store is closed only at the end of the shutdown, after
\* the HTTP server and the consensus node, and a commit request that still
\* waited for its broadcast when the shutdown began and was not committed has
\* been answered with CONSENSUS_TIMEOUT when the process ends.
C36_PendingEndWithTimeout ==
    /\ main.db = "closed" => main.pc = "exited"
    /\ main.pc = "exited"
          => \A r \in main.pending :
                 /\ reqs[r].pc = "done"
                 /\ reqs[r].code \in {"", "CONSENSUS_TIMEOUT"}

(***************************************************************************)
(* Ledger keys                                                             *)
(***************************************************************************)

\* the transactions of the blocks replica n has committed
CommittedTxs(n) ==
    {tx \in AbciTxs : \E h \in DOMAIN chain : \E i \in DOMAIN chain[h] :
                         h <= LastBlockHeight(n) /\ chain[h][i] = tx}

\* the three ledger keys storeShardCommit writes for a commit
KeysOf(c) ==
    {TxKey(generateTxID(c.session_id, c.shard_id)),
     StatusKey(generateTxID(c.session_id, c.shard_id)),
     ShardKey(c.shard_id, c.session_id)}

\* C37: commits with different (session_id, shard_id) pairs have no ledger
\* key in common, and the ledger entries of a committed commit hold the bytes
\* of a commit of the same session and shard.
C37_KeysDoNotCollide ==
    \A n \in Nodes : \A t1 \in CommittedTxs(n), t2 \in CommittedTxs(n) :
        LET c1 == Unmarshal(t1)
            c2 == Unmarshal(t2)
        IN (/\ c1.ok
            /\ c2.ok
            /\ <<c1.v.session_id, c1.v.shard_id>> # <<c2.v.session_id, c2.v.shard_id>>)
           => /\ KeysOf(c1.v) \cap KeysOf(c2.v) = {}
              /\ LET stored == Unmarshal(ledger[n][TxKey(generateTxID(c1.v.session_id,
                                                                      c1.v.shard_id))])
                 IN /\ stored.v.session_id = c1.v.session_id
                    /\ stored.v.shard_id = c1.v.shard_id

\* C38: every transaction of a proposal ProcessProposal accepts gets code 0
\* from CheckTx, and every commit a replica has stored from a committed block
\* has a non-empty shard_id, session_id and client_group.
C38_ChecksAgree ==
    /\ proposal.status = "ACCEPT"
          => \A i \in DOMAIN proposal.txs : CheckTx(proposal.txs[i]) = 0
    /\ \A n \in Nodes : \A tx \in CommittedTxs(n) :
           Unmarshal(tx).ok
           => /\ Unmarshal(tx).v.shard_id # ""
              /\ Unmarshal(tx).v.session_id # ""
              /\ Unmarshal(tx).v.client_group # ""

(***************************************************************************)
(* The receipt of a committed session                                      *)
(***************************************************************************)

\* C39: for a session of the shard with is_committed = true the L1 replica
\* the shard commits to holds a Transaction row of that session_id with the
\* session's l1_tx_hash and l1_block_height.
C39_ReceiptMatchesRow ==
    \A s \in L2SessionIds :
        (sessions[s].present /\ sessions[s].is_committed)
        => /\ txrows[L1Endpoint][s].present
           /\ txrows[L1Endpoint][s].tx_hash = sessions[s].l1_tx_hash
           /\ txrows[L1Endpoint][s].block_height = sessions[s].l1_block_height

\* a session is committed with the receipt of a block of the replica
C39_Witness ==
    \E s \in L2SessionIds :
        /\ sessions[s].present
        /\ sessions[s].is_committed
        /\ sessions[s].l1_block_height >= 1
        /\ sessions[s].l1_tx_hash # NoHash
        /\ txrows[L1Endpoint][s].status = "confirmed"

(***************************************************************************)
(* Route lookup                                                            *)
(***************************************************************************)

\* C40: with the default routes of the L1 and of the L2 registered, a lookup
\* of any method and path can return at most one handler, and the handler
\* it returned is that one whatever the order the patterns are tried in.
C40_LookupIsDeterministic ==
    rcall.pc = "done"
    => /\ Cardinality(HandlersFor(rcall.at, rcall.Method, rcall.Path)) <= 1
       /\ \A h \in HandlersFor(rcall.at, rcall.Method, rcall.Path) :
              rcall.handler = h

\* a parameter route of the L1 was looked up with a word that is a literal
\* segment of another route, and its handler was returned
C40_Witness ==
    /\ rcall.pc = "done"
    /\ rcall.at = "l1"
    /\ rcall.Method = "get"
    /\ rcall.Path = <<"", "l1", "sessions", "group", "shard">>
    /\ rcall.handler = "GetSessionsByGroupHandler"

TypeOK ==
    /\ \A r \in ReqIds : reqs[r].pc \in {"idle", "admitted", "waiting", "done", "lost"}
    /\ Len(chain) <= MaxHeight

====
